---- MODULE Spec2Model ----
(***************************************************************************)
(* Model of the hierarchical-header engine of ExcelChatbot_VDT             *)
(* (src/web/backend/core): the row-key normalizer (preprocess.py), the     *)
(* selection parsers and the selector/renderer (extract_df.py) and the     *)
(* header-matrix builder (postprocess.py).                                 *)
(*                                                                         *)
(* Text is modelled at character level: a Python str is a sequence of      *)
(* one-character strings.  A table (DataFrame) is a record                 *)
(*   [multi |-> is the column axis a MultiIndex,                           *)
(*    columns |-> sequence of column keys (a key is a sequence of labels), *)
(*    data |-> sequence of rows, a row being a sequence of cells aligned   *)
(*             with columns].                                              *)
(* A flat (non-MultiIndex) axis is kept as keys of length one.             *)
(***************************************************************************)
EXTENDS Integers, Sequences, FiniteSets, TLC

VARIABLES
    pc,             \* position of the ingestion / query / post-processing flow
    raw_df,         \* the table as read from the spreadsheet (pd.read_excel)
    df,             \* metadata.df: the table being normalized, then queried
    feature_rows,   \* feature_name_result["feature_rows"]
    row_selection,  \* text of the row selection of the current query
    col_selection,  \* text of the column selection of the current query
    final_df,       \* what render_filtered_dataframe returned (or raised)
    header_matrix,  \* what build_header_matrix returned
    feature_cols,   \* feature_name_result["feature_cols"]
    row_dict,       \* metadata.row_dict: the row hierarchy tree
    col_dict,       \* metadata.col_dict: the column hierarchy tree
    handed,         \* the tables handed to the copying operations of the
                    \* ingestion, as the operations left them
    flattened_headers, \* what create_flattened_headers returned
    acronym_text,   \* the argument of create_acronym
    acronym,        \* what create_acronym returned
    parsed_row_paths,  \* what parse_row_paths returned
    parsed_col_paths,  \* what parse_col_paths returned (or that it raised)
    selected_columns   \* what create_column_tuples returned

\* the processed file: metadata of extract_file_metadata
file_vars == <<raw_df, df, feature_rows, feature_cols, row_dict, col_dict,
               handed>>
\* the query being answered
query_vars == <<row_selection, col_selection, final_df>>
\* the table structures of the post-processor
post_vars == <<header_matrix, flattened_headers>>
\* a call of create_acronym
text_vars == <<acronym_text, acronym>>
\* the paths parsed from the texts of a selection
parse_vars == <<parsed_row_paths, parsed_col_paths, selected_columns>>

vars == <<pc, file_vars, query_vars, post_vars, text_vars, parse_vars>>

(***************************************************************************)
(* Values                                                                  *)
(***************************************************************************)
\* numpy.nan / None: equal to no string (no string holds a 3-letter character)
NaN == <<"NaN">>
\* Python None as returned by search_column_in_multiindex
None == <<"None">>
\* a numeric cell: equal to no string
Num(d) == <<"#num", d>>

s_undefined == <<"u","n","d","e","f","i","n","e","d">>
s_Undefined == <<"U","n","d","e","f","i","n","e","d">>
s_UNDEFINED == <<"U","N","D","E","F","I","N","E","D">>
s_Header == <<"H","e","a","d","e","r">>
s_Unnamed == <<"U","n","n","a","m","e","d",":">>
s_level_ == <<"l","e","v","e","l","_">>

(***************************************************************************)
(* Python str operations                                                   *)
(***************************************************************************)
UpperCase == <<"A","B","C","D","E","F","G","H","I","J","K","L","M",
               "N","O","P","Q","R","S","T","U","V","W","X","Y","Z">>
LowerCase == <<"a","b","c","d","e","f","g","h","i","j","k","l","m",
               "n","o","p","q","r","s","t","u","v","w","x","y","z">>

lower_char(c) ==
    IF \E i \in DOMAIN UpperCase : UpperCase[i] = c
    THEN LowerCase[CHOOSE i \in DOMAIN UpperCase : UpperCase[i] = c]
    ELSE c

\* str.lower()
lower(s) == [i \in DOMAIN s |-> lower_char(s[i])]

isspace(c) == c \in {" ", "\n", "\t"}
isdigit(c) == c \in {"0","1","2","3","4","5","6","7","8","9"}

\* number of leading whitespace characters: len(s) - len(s.lstrip())
leading_spaces(s) ==
    CHOOSE k \in 0..Len(s) :
        /\ \A i \in 1..k : isspace(s[i])
        /\ (k = Len(s) \/ ~isspace(s[k+1]))

trailing_spaces(s) ==
    CHOOSE k \in 0..Len(s) :
        /\ \A i \in (Len(s)-k+1)..Len(s) : isspace(s[i])
        /\ (k = Len(s) \/ ~isspace(s[Len(s)-k]))

\* str.lstrip()
lstrip(s) == SubSeq(s, leading_spaces(s) + 1, Len(s))

\* str.strip()
strip(s) ==
    LET t == lstrip(s)
    IN  SubSeq(t, 1, Len(t) - trailing_spaces(t))

\* index of the first occurrence of character c in s, 0 when absent
find(s, c) ==
    IF \E i \in 1..Len(s) : s[i] = c
    THEN CHOOSE i \in 1..Len(s) : s[i] = c /\ \A j \in 1..(i-1) : s[j] # c
    ELSE 0

\* c in s
contains(s, c) == find(s, c) # 0

\* str.split(sep) for a one-character separator
RECURSIVE split(_, _)
split(s, sep) ==
    LET i == find(s, sep)
    IN  IF i = 0 THEN <<s>>
        ELSE <<SubSeq(s, 1, i-1)>> \o split(SubSeq(s, i+1, Len(s)), sep)

\* str.split(sep, 1): at most one split
split_once(s, sep) ==
    LET i == find(s, sep)
    IN  IF i = 0 THEN <<s>>
        ELSE <<SubSeq(s, 1, i-1), SubSeq(s, i+1, Len(s))>>

\* str.startswith(prefix)
startswith(s, prefix) ==
    /\ Len(s) >= Len(prefix)
    /\ SubSeq(s, 1, Len(prefix)) = prefix

digit_value(c) ==
    CASE c = "0" -> 0 [] c = "1" -> 1 [] c = "2" -> 2 [] c = "3" -> 3
      [] c = "4" -> 4 [] c = "5" -> 5 [] c = "6" -> 6 [] c = "7" -> 7
      [] c = "8" -> 8 [] c = "9" -> 9

\* does int(s) succeed: surrounding whitespace is accepted, then digits only
int_ok(s) ==
    LET t == strip(s)
    IN  Len(t) > 0 /\ \A i \in 1..Len(t) : isdigit(t[i])

RECURSIVE digits_value(_, _)
digits_value(t, acc) ==
    IF t = <<>> THEN acc
    ELSE digits_value(Tail(t), 10 * acc + digit_value(Head(t)))

\* int(s), defined when int_ok(s)
int(s) == digits_value(strip(s), 0)

\* '\n'.join(lines)
RECURSIVE join_lines(_)
join_lines(lines) ==
    IF lines = <<>> THEN <<>>
    ELSE IF Len(lines) = 1 THEN lines[1]
    ELSE lines[1] \o <<"\n">> \o join_lines(Tail(lines))

(***************************************************************************)
(* Python dict with insertion order: a sequence of <<key, value>> pairs    *)
(* with distinct keys.                                                     *)
(***************************************************************************)
dict_has(d, k) == \E i \in 1..Len(d) : d[i][1] = k

dict_get(d, k) == d[CHOOSE i \in 1..Len(d) : d[i][1] = k][2]

\* d[k] = v
dict_set(d, k, v) ==
    IF dict_has(d, k)
    THEN [i \in 1..Len(d) |-> IF d[i][1] = k THEN <<k, v>> ELSE d[i]]
    ELSE Append(d, <<k, v>>)

(***************************************************************************)
(* Selection parsers (extract_df.py)                                       *)
(***************************************************************************)
\* mutant: every leading space is a level of indentation
indent_level_per_space(line) == leading_spaces(line)

\* indent_level = (len(line) - len(line.lstrip())) // 4
indent_level(line) == leading_spaces(line) \div 4

\* the loop of parse_row_paths over the lines, and the final append
RECURSIVE parse_row_lines(_, _, _)
parse_row_lines(lines, paths, current_path) ==
    IF lines = <<>>
    THEN IF current_path # <<>> THEN Append(paths, current_path) ELSE paths
    ELSE
        LET line == Head(lines)
            parts == split_once(strip(line), ":")
            feature == strip(parts[1])
            value == strip(parts[2])
        IN  IF strip(line) = <<>> \/ ~contains(line, ":")
            THEN parse_row_lines(Tail(lines), paths, current_path)
            ELSE IF indent_level(line) = 0
            THEN parse_row_lines(Tail(lines),
                     IF current_path # <<>> THEN Append(paths, current_path)
                                            ELSE paths,
                     << <<feature, value>> >>)
            ELSE parse_row_lines(Tail(lines), paths,
                     dict_set(current_path, feature, value))

\* a list of paths, each an ordered dict feature -> value
parse_row_paths(text) ==
    IF strip(text) = <<>> THEN <<>>
    ELSE parse_row_lines(split(strip(text), "\n"), <<>>, <<>>)

\* the loop of parse_col_paths; raised is set when int() raises ValueError
RECURSIVE parse_col_lines(_, _, _)
parse_col_lines(lines, paths, current_path) ==
    IF lines = <<>>
    THEN [raised |-> FALSE,
          paths |-> IF current_path # <<>> THEN Append(paths, current_path)
                                           ELSE paths]
    ELSE
        LET line == Head(lines)
            parts == split_once(strip(line), ":")
            level_part == strip(parts[1])
            value == strip(parts[2])
            num_text == split(level_part, "_")[2]
            level_num == int(num_text)
        IN  IF strip(line) = <<>> \/ ~contains(line, ":")
            THEN parse_col_lines(Tail(lines), paths, current_path)
            ELSE IF ~startswith(level_part, s_level_)
            THEN parse_col_lines(Tail(lines), paths, current_path)
            ELSE IF ~int_ok(num_text)
            THEN [raised |-> TRUE, paths |-> <<>>]
            ELSE IF level_num = 1
            THEN parse_col_lines(Tail(lines),
                     IF current_path # <<>> THEN Append(paths, current_path)
                                            ELSE paths,
                     << <<level_num, value>> >>)
            ELSE parse_col_lines(Tail(lines), paths,
                     dict_set(current_path, level_num, value))

\* [raised, paths]: paths is a list of ordered dicts level number -> value
parse_col_paths(text) ==
    IF strip(text) = <<>> THEN [raised |-> FALSE, paths |-> <<>>]
    ELSE parse_col_lines(split(strip(text), "\n"), <<>>, <<>>)

(***************************************************************************)
(* DataFrame access                                                        *)
(***************************************************************************)
nrows(t) == Len(t.data)
ncols(t) == Len(t.columns)

\* df.columns.nlevels
nlevels(t) == IF t.multi /\ ncols(t) > 0 THEN Len(t.columns[1]) ELSE 1

has_column(t, key) == \E j \in 1..ncols(t) : t.columns[j] = key

column_index(t, key) == CHOOSE j \in 1..ncols(t) : t.columns[j] = key

\* df[key] for a full column key: the Series of its cells
column(t, key) == [r \in 1..nrows(t) |-> t.data[r][column_index(t, key)]]

\* t[i] with Python's negative indices
py_index(t, i) == IF i < 0 THEN t[Len(t) + i + 1] ELSE t[i + 1]

\* elements of a list, as a set
elements(list) == {list[i] : i \in 1..Len(list)}

\* the sub-list of list at the indices satisfying keep, in order
RECURSIVE select_indices(_, _, _)
select_indices(list, keep, i) ==
    IF i > Len(list) THEN <<>>
    ELSE (IF keep[i] THEN <<list[i]>> ELSE <<>>)
         \o select_indices(list, keep, i + 1)

(***************************************************************************)
(* Selector / renderer (extract_df.py)                                     *)
(***************************************************************************)
\* the full key of the first column holding column_name at some level, or None
search_column_in_multiindex(t, column_name) ==
    IF ~t.multi
    THEN IF has_column(t, <<column_name>>) THEN <<column_name>> ELSE None
    ELSE IF \E j \in 1..ncols(t) : column_name \in elements(t.columns[j])
         THEN t.columns[CHOOSE j \in 1..ncols(t) :
                  /\ column_name \in elements(t.columns[j])
                  /\ \A k \in 1..(j-1) : column_name \notin elements(t.columns[k])]
         ELSE None

\* the values an entry's text stands for: value.split(',') stripped, or [value]
entry_values(value) ==
    IF contains(value, ",")
    THEN {strip(v) : v \in elements(split(value, ","))}
    ELSE {value}

\* mutant: the wildcard is recognised in one spelling only
is_undefined_exact(value) == value = s_Undefined

\* is the entry skipped as a wildcard: str(value).lower() == 'undefined'
is_undefined(value) == lower(value) = s_undefined

\* mutant: the column lookup is not guarded by `is not None`
entry_counts_unchecked(t, feature, value) == ~is_undefined(value)

\* does an entry of a row path add a condition (not Undefined, column found)
entry_counts(t, feature, value) ==
    /\ ~is_undefined(value)
    /\ search_column_in_multiindex(t, feature) # None

\* conditions_for_path: the [key, values] conditions of one path, in order
RECURSIVE conditions_for_path(_, _)
conditions_for_path(t, path) ==
    IF path = <<>> THEN <<>>
    ELSE LET feature == path[1][1]
             value == path[1][2]
         IN  (IF entry_counts(t, feature, value)
              THEN << [key |-> search_column_in_multiindex(t, feature),
                       values |-> entry_values(value)] >>
              ELSE <<>>)
             \o conditions_for_path(t, Tail(path))

\* mutant: every row passes a condition
isin_every_row(t, cond, r) == TRUE

\* df[col_tuple].isin(values) at row r
isin(t, cond, r) == column(t, cond.key)[r] \in cond.values

\* [raised, mask]: raised is the KeyError of df[col_tuple] on a missing key
create_row_condition(t, row_paths) ==
    LET conds == [p \in 1..Len(row_paths) |->
                      conditions_for_path(t, row_paths[p])]
        path_conditions == {p \in 1..Len(row_paths) : conds[p] # <<>>}
        missing == \E p \in path_conditions : \E c \in elements(conds[p]) :
                       ~has_column(t, c.key)
    IN  IF missing THEN [raised |-> TRUE, mask |-> <<>>]
        ELSE [raised |-> FALSE,
              mask |-> [r \in 1..nrows(t) |->
                  IF path_conditions = {} THEN TRUE
                  ELSE \E p \in path_conditions :
                           \A c \in elements(conds[p]) : isin(t, c, r)]]

\* mutant: a value with commas stands for its alternatives, as in a row path
matches_alternatives(t, col_tuple, path) ==
    \A e \in elements(path) :
        e[1] <= nlevels(t) =>
            py_index(col_tuple, e[1] - 1) \in entry_values(e[2])

\* does column key col_tuple match the path (lines 213-225); an index past the
\* key's end is an IndexError the guards of the source exclude
matches(t, col_tuple, path) ==
    \A e \in elements(path) :
        LET level_num == e[1]
            value == e[2]
        IN  level_num <= nlevels(t) =>
                /\ level_num - 1 < Len(col_tuple)
                /\ value = py_index(col_tuple, level_num - 1)

\* mutant: a path contributes its first matching column only
path_columns_first(t, path) ==
    LET all == select_indices(t.columns,
                   [j \in 1..ncols(t) |->
                       IF t.multi THEN matches(t, t.columns[j], path)
                       ELSE dict_has(path, 1)
                            /\ t.columns[j] = <<dict_get(path, 1)>>], 1)
    IN  IF all = <<>> THEN <<>> ELSE <<Head(all)>>

\* the columns one path contributes, in table column order (lines 209-235)
path_columns(t, path) ==
    IF t.multi
    THEN select_indices(t.columns,
             [j \in 1..ncols(t) |-> matches(t, t.columns[j], path)], 1)
    ELSE IF dict_has(path, 1)
         THEN select_indices(t.columns,
                  [j \in 1..ncols(t) |-> t.columns[j] = <<dict_get(path, 1)>>], 1)
         ELSE <<>>

\* mutant: the columns some path matches, once each, in table order
create_column_tuples_any(t, col_paths) ==
    select_indices(t.columns,
        [j \in 1..ncols(t) |->
            \E p \in 1..Len(col_paths) :
                t.columns[j] \in elements(path_columns(t, col_paths[p]))], 1)

RECURSIVE create_column_tuples(_, _)
create_column_tuples(t, col_paths) ==
    IF col_paths = <<>> THEN <<>>
    ELSE path_columns(t, Head(col_paths))
         \o create_column_tuples(t, Tail(col_paths))

\* `if feature_tuple:` None is false, a key tuple true, a flat name true
\* unless it is the empty string
truthy(t, feature_tuple) ==
    /\ feature_tuple # None
    /\ (t.multi \/ feature_tuple # << <<>> >>)

\* feature_row_tuples: the resolved keys of the feature rows that resolve
RECURSIVE feature_row_tuples(_, _)
feature_row_tuples(t, names) ==
    IF names = <<>> THEN <<>>
    ELSE LET feature_tuple == search_column_in_multiindex(t, Head(names))
         IN  (IF truthy(t, feature_tuple)
              THEN <<feature_tuple>> ELSE <<>>)
             \o feature_row_tuples(t, Tail(names))

\* mutant: the row mask is not applied
filter_rows_all(t, mask) == t

\* df[mask]: the rows where the mask is true, in order
filter_rows(t, mask) ==
    [t EXCEPT !.data = select_indices(t.data, mask, 1)]

\* df[all_columns]: the listed columns, in the listed order
project(t, all_columns) ==
    [t EXCEPT !.columns = all_columns,
              !.data = [r \in 1..nrows(t) |->
                           [j \in 1..Len(all_columns) |->
                               t.data[r][column_index(t, all_columns[j])]]]]

\* [raised, df]: raised when parse_col_paths or a column lookup raises
render_filtered_dataframe(t, row_sel, col_sel, feature_row_names) ==
    LET row_paths == parse_row_paths(row_sel)
        col_parse == parse_col_paths(col_sel)
        row_condition == create_row_condition(t, row_paths)
        row_filtered_df == filter_rows(t, row_condition.mask)
        column_tuples == create_column_tuples(t, col_parse.paths)
        all_columns == feature_row_tuples(t, feature_row_names) \o column_tuples
    IN  IF col_parse.raised \/ row_condition.raised
        THEN [raised |-> TRUE, df |-> None]
        ELSE IF \E j \in 1..Len(all_columns) : ~has_column(t, all_columns[j])
        THEN [raised |-> TRUE, df |-> None]
        ELSE [raised |-> FALSE,
              df |-> IF all_columns # <<>>
                     THEN project(row_filtered_df, all_columns)
                     ELSE row_filtered_df]

(***************************************************************************)
(* Header / row normalizer (preprocess.py)                                 *)
\* mutant: the row filter is applied to the table the renderer was handed
render_filtered_dataframe_in_place(t, row_sel, col_sel, feature_row_names) ==
    IF render_filtered_dataframe(t, row_sel, col_sel, feature_row_names).raised
    THEN t
    ELSE [t EXCEPT !.data =
             render_filtered_dataframe(t, row_sel, col_sel,
                                       feature_row_names).df.data]

\* the caller's table after render_filtered_dataframe: df[final_mask] and
\* filtered_df[all_columns] build new tables, nothing is assigned into df
render_filtered_dataframe_df(t, row_sel, col_sel, feature_row_names) == t

(***************************************************************************)
\* sua_ten_tieu_de_phu: an auto-generated "Unnamed:..." label becomes "Header"
sua_ten_tieu_de_phu(label) ==
    IF startswith(label, s_Unnamed) THEN s_Header ELSE label

\* df.rename(columns=..., level=i) for i in 1..number_of_row_header-1
clean_unnamed_header(t, number_of_row_header) ==
    IF ~t.multi THEN t
    ELSE [t EXCEPT !.columns =
             [j \in 1..ncols(t) |->
                 [l \in 1..Len(t.columns[j]) |->
                     IF l >= 2 /\ l <= number_of_row_header
                     THEN sua_ten_tieu_de_phu(t.columns[j][l])
                     ELSE t.columns[j][l]]]]

\* positions of the columns df[name] selects: by top-level label on a
\* MultiIndex, by name on a flat axis
columns_of(t, name) ==
    {j \in 1..ncols(t) : t.columns[j][1] = name}

first_of(t, name) == CHOOSE j \in columns_of(t, name) :
                        \A k \in columns_of(t, name) : j <= k

notna(v) == v # NaN
isna(v) == v = NaN

\* does the pair (col_current_id, col_next_id) raise: KeyError on an absent
\* column, IndexError of [:,0] on the 1-D values of a flat axis, ValueError
\* when the two blocks do not broadcast
pair_raises(t, col_current_id, col_next_id) ==
    \/ columns_of(t, col_current_id) = {}
    \/ columns_of(t, col_next_id) = {}
    \/ ~t.multi
    \/ LET k1 == Cardinality(columns_of(t, col_current_id))
           k2 == Cardinality(columns_of(t, col_next_id))
       IN  k1 # k2 /\ k1 # 1 /\ k2 # 1

\* condition_to_fill[:,0] at row r
condition_to_fill(t, col_current_id, col_next_id, r) ==
    /\ notna(t.data[r][first_of(t, col_current_id)])
    /\ isna(t.data[r][first_of(t, col_next_id)])

\* df.loc[condition_to_fill[:,0], col_next_id] = fill_value
fill_pair(t, col_current_id, col_next_id, fill_value) ==
    [t EXCEPT !.data =
        [r \in 1..nrows(t) |->
            [j \in 1..ncols(t) |->
                IF /\ j \in columns_of(t, col_next_id)
                   /\ condition_to_fill(t, col_current_id, col_next_id, r)
                THEN fill_value
                ELSE t.data[r][j]]]]

\* mutant: every pair is filled from the table as it was handed in
fill_pairs_from_input(t, column_names_list, i, fill_value) ==
    IF \E k \in i..(Len(column_names_list) - 1) :
           pair_raises(t, column_names_list[k], column_names_list[k+1])
    THEN [raised |-> TRUE, df |-> None]
    ELSE [raised |-> FALSE,
          df |-> [t EXCEPT !.data =
              [r \in 1..nrows(t) |->
                  [j \in 1..ncols(t) |->
                      IF \E k \in i..(Len(column_names_list) - 1) :
                             /\ j \in columns_of(t, column_names_list[k+1])
                             /\ condition_to_fill(t, column_names_list[k],
                                                  column_names_list[k+1], r)
                      THEN fill_value
                      ELSE t.data[r][j]]]]]

\* the loop over the consecutive pairs, from pair i on
RECURSIVE fill_pairs(_, _, _, _)
fill_pairs(t, column_names_list, i, fill_value) ==
    IF i >= Len(column_names_list) THEN [raised |-> FALSE, df |-> t]
    ELSE IF pair_raises(t, column_names_list[i], column_names_list[i+1])
    THEN [raised |-> TRUE, df |-> None]
    ELSE fill_pairs(fill_pair(t, column_names_list[i],
                              column_names_list[i+1], fill_value),
                    column_names_list, i + 1, fill_value)

\* [raised, df]
fill_undefined_sequentially(df_input, column_names_list) ==
    fill_pairs(df_input, column_names_list, 1, s_Undefined)

\* mutant: nothing is carried down
ffill_nothing(t, j, r) == t.data[r][j]

\* Series.ffill(): the last non-null value at or before row r of column j
ffill(t, j, r) ==
    IF \E q \in 1..r : notna(t.data[q][j])
    THEN t.data[CHOOSE q \in 1..r :
                    /\ notna(t.data[q][j])
                    /\ \A q2 \in (q+1)..r : isna(t.data[q2][j])][j]
    ELSE NaN

\* [raised, df]: raised is the KeyError of df[column_name]; every column is
\* filled from the table as it stands, the columns being independent
forward_fill_column_nans(input_df, columns_to_process_list) ==
    IF \E i \in 1..Len(columns_to_process_list) :
           columns_of(input_df, columns_to_process_list[i]) = {}
    THEN [raised |-> TRUE, df |-> None]
    ELSE [raised |-> FALSE,
          df |-> [input_df EXCEPT !.data =
              [r \in 1..nrows(input_df) |->
                  [j \in 1..ncols(input_df) |->
                      IF \E i \in 1..Len(columns_to_process_list) :
                             j \in columns_of(input_df, columns_to_process_list[i])
                      THEN ffill(input_df, j, r)
                      ELSE input_df.data[r][j]]]]]

\* mutant: the forward fill runs before the sentinel fill
preprocess_ffill_first(t, names) ==
    LET cleaned == clean_unnamed_header(t, nlevels(t))
        filled == forward_fill_column_nans(cleaned, names)
    IN  IF filled.raised THEN filled
        ELSE fill_undefined_sequentially(filled.df, names)

\* step 6 of extract_file_metadata: clean the header, sentinel fill, then
\* forward fill; an exception of a step ends the ingestion
preprocess(t, names) ==
    LET cleaned == clean_unnamed_header(t, nlevels(t))
        filled == fill_undefined_sequentially(cleaned, names)
    IN  IF filled.raised THEN filled
        ELSE forward_fill_column_nans(filled.df, names)

(***************************************************************************)
(* Header matrix (postprocess.py).  Levels and positions are 0-based as in *)
(* the source; multiindex_columns is a sequence of keys of equal length.   *)
(***************************************************************************)
axis_nlevels(multiindex_columns) == Len(multiindex_columns[1])

\* str(multiindex_columns.get_level_values(level)[position])
level_value(multiindex_columns, level, position) ==
    multiindex_columns[position + 1][level + 1]

\* mutant: no cell spans downward
calculate_rowspan_of_one(multiindex_columns, level, position) == 1

calculate_rowspan(multiindex_columns, level, position) ==
    LET n_levels == axis_nlevels(multiindex_columns)
        all_lower_are_headers ==
            \A lower_level \in (level + 1)..(n_levels - 1) :
                level_value(multiindex_columns, lower_level, position) = s_Header
    IN  IF level = n_levels - 1 THEN 1
        ELSE IF all_lower_are_headers THEN n_levels - level
        ELSE 1

\* the end of the run of consecutive identical, uncovered values
RECURSIVE consecutive_end(_, _, _, _, _)
consecutive_end(multiindex_columns, level, current_value_str, covered_positions, e) ==
    IF /\ e < Len(multiindex_columns)
       /\ level_value(multiindex_columns, level, e) = current_value_str
       /\ <<level, e>> \notin covered_positions
    THEN consecutive_end(multiindex_columns, level, current_value_str,
                         covered_positions, e + 1)
    ELSE e

calculate_intelligent_colspan(multiindex_columns, level, start_position, current_value_str, covered_positions) ==
    LET n_levels == axis_nlevels(multiindex_columns)
        run_end == consecutive_end(multiindex_columns, level, current_value_str,
                                   covered_positions, start_position + 1)
        potential_colspan == run_end - start_position
        lower_levels_vary ==
            \E lower_level \in (level + 1)..(n_levels - 1) :
                \E pos \in (start_position + 1)..(run_end - 1) :
                    level_value(multiindex_columns, lower_level, pos)
                        # level_value(multiindex_columns, lower_level, start_position)
        all_lower_are_headers ==
            \A lower_level \in (level + 1)..(n_levels - 1) :
                \A pos \in start_position..(run_end - 1) :
                    level_value(multiindex_columns, lower_level, pos) = s_Header
    IN  IF level = n_levels - 1 THEN 1
        ELSE IF potential_colspan = 1 THEN 1
        ELSE IF lower_levels_vary THEN potential_colspan
        ELSE IF all_lower_are_headers THEN potential_colspan
        ELSE 1

\* mutant: the rowspan of a cell marks nothing as covered
cell_covers_nothing(cell, n_levels) == {}

\* the positions a cell marks as covered by its rowspan
cell_covers(cell, n_levels) ==
    {<<r, c>> : r \in {q \in (cell.level + 1)..(cell.level + cell.rowspan - 1) :
                          q < n_levels},
                c \in cell.position..(cell.position + cell.colspan - 1)}

\* the while loop of the second pass over one level, from position i on
RECURSIVE build_level(_, _, _, _, _)
build_level(multiindex_columns, level, i, covered_positions, level_headers) ==
    IF i >= Len(multiindex_columns)
    THEN [headers |-> level_headers, covered |-> covered_positions]
    ELSE IF <<level, i>> \in covered_positions
    THEN build_level(multiindex_columns, level, i + 1, covered_positions,
                     level_headers)
    ELSE
        LET current_value_str == level_value(multiindex_columns, level, i)
            cell == [text |-> current_value_str,
                     colspan |-> calculate_intelligent_colspan(multiindex_columns,
                                     level, i, current_value_str, covered_positions),
                     rowspan |-> calculate_rowspan(multiindex_columns, level, i),
                     position |-> i,
                     level |-> level]
        IN  build_level(multiindex_columns, level, i + cell.colspan,
                covered_positions
                    \cup cell_covers(cell, axis_nlevels(multiindex_columns)),
                Append(level_headers, cell))

\* the second pass over the levels, from level on
RECURSIVE build_levels(_, _, _, _)
build_levels(multiindex_columns, level, covered_positions, matrix) ==
    IF level >= axis_nlevels(multiindex_columns) THEN matrix
    ELSE LET done == build_level(multiindex_columns, level, 0,
                                 covered_positions, <<>>)
         IN  build_levels(multiindex_columns, level + 1, done.covered,
                          Append(matrix, done.headers))

\* the list, per level, of the emitted header cells
build_header_matrix(multiindex_columns) ==
    build_levels(multiindex_columns, 0, {}, <<>>)

(***************************************************************************)
(* Flattened headers and acronyms (postprocess.py)                         *)
(***************************************************************************)
s_nan == <<"n","a","n">>
s_Column == <<"C","o","l","u","m","n">>

\* str(part) of a header label: a missing label reads "nan"
str(part) == IF part = NaN THEN s_nan ELSE part

\* re.split(r'\s+', text) from character i on, cur being the word begun
RECURSIVE re_split_spaces(_, _, _)
re_split_spaces(t, i, cur) ==
    IF i > Len(t) THEN <<cur>>
    ELSE IF isspace(t[i])
    THEN IF i < Len(t) /\ isspace(t[i + 1])
         THEN re_split_spaces(t, i + 1, cur)
         ELSE <<cur>> \o re_split_spaces(t, i + 1, <<>>)
    ELSE re_split_spaces(t, i + 1, Append(cur, t[i]))

\* ''.join(parts)
RECURSIVE join_parts(_)
join_parts(parts) ==
    IF parts = <<>> THEN <<>> ELSE Head(parts) \o join_parts(Tail(parts))

\* mutant: the piece of a word is put in lower case
acronym_piece_lower(word) ==
    IF word = <<>> THEN <<>> ELSE <<lower_char(word[1])>>

\* the piece one word contributes to the acronym
acronym_piece(word) ==
    LET letters == SelectSeq(word, LAMBDA c : ~isdigit(c))
        numbers == SelectSeq(word, isdigit)
    IN  IF word # <<>> /\ letters = <<>> THEN word
        ELSE IF numbers # <<>>
        THEN IF letters # <<>> THEN <<letters[1]>> \o numbers ELSE numbers
        ELSE IF word # <<>> THEN <<word[1]>>
        ELSE <<>>

create_acronym(label) ==
    LET words == re_split_spaces(strip(str(label)), 1, <<>>)
    IN  join_parts([i \in 1..Len(words) |-> acronym_piece(words[i])])

\* " ".join(parts)
RECURSIVE join_spaces(_)
join_spaces(parts) ==
    IF parts = <<>> THEN <<>>
    ELSE IF Len(parts) = 1 THEN parts[1]
    ELSE parts[1] \o <<" ">> \o join_spaces(Tail(parts))

\* mutant: the leaf component is abbreviated like the others
flattened_name_all_acronyms(meaningful_parts) ==
    join_spaces([j \in 1..Len(meaningful_parts) |->
                    create_acronym(meaningful_parts[j])])

\* the name of a column with two or more meaningful parts
flattened_name(meaningful_parts) ==
    join_spaces([j \in 1..Len(meaningful_parts) |->
                    IF j < Len(meaningful_parts)
                    THEN create_acronym(meaningful_parts[j])
                    ELSE meaningful_parts[j]])

\* one name per column key
create_flattened_headers(multiindex_columns) ==
    [i \in 1..Len(multiindex_columns) |->
        LET col_tuple == multiindex_columns[i]
            meaningful_parts ==
                SelectSeq([l \in 1..Len(col_tuple) |-> str(col_tuple[l])],
                          LAMBDA part : part # s_Header /\ part # s_nan)
        IN  IF Len(meaningful_parts) = 0 THEN s_Column
            ELSE IF Len(meaningful_parts) = 1 THEN meaningful_parts[1]
            ELSE flattened_name(meaningful_parts)]

\* DataFrame.empty
empty(t) == nrows(t) = 0 \/ ncols(t) = 0

\* the header part of extract_hierarchical_table_info: the matrix of the
\* normal table and the headers of the flattened table
extract_hierarchical_table_info(t) ==
    IF t.multi
    THEN [header_matrix |-> build_header_matrix(t.columns),
          flattened_headers |-> create_flattened_headers(t.columns)]
    ELSE [header_matrix |->
              << [i \in 1..ncols(t) |->
                     [text |-> str(t.columns[i][1]), colspan |-> 1,
                      rowspan |-> 1, position |-> i - 1]] >>,
          flattened_headers |-> [i \in 1..ncols(t) |-> str(t.columns[i][1])]]

(***************************************************************************)
(* Hierarchy trees (metadata.py).  A tree node is a Python dict or list:   *)
(*   [kind |-> "dict", items |-> sequence of <<key, child node>>]          *)
(*   [kind |-> "list", items |-> sequence of keys]                         *)
(* so that the empty dict {} and the empty list [] are different values.   *)
(***************************************************************************)
dict_of(items) == [kind |-> "dict", items |-> items]
list_of(items) == [kind |-> "list", items |-> items]
EmptyDict == dict_of(<<>>)

\* list(d.keys())
keys_of(d) == [i \in 1..Len(d.items) |-> d.items[i][1]]

\* isinstance(v, dict) and not v
is_empty_dict(v) == v.kind = "dict" /\ v.items = <<>>

\* Series.unique() / Index.unique(): the values in order of first appearance
RECURSIVE unique(_)
unique(list) ==
    IF list = <<>> THEN <<>>
    ELSE LET init == unique(SubSeq(list, 1, Len(list) - 1))
             last == list[Len(list)]
         IN  IF last \in elements(init) THEN init ELSE Append(init, last)

\* Series.dropna()
dropna(list) == SelectSeq(list, notna)

\* the characters of the model's texts, by increasing code point
CodePoints ==
    <<"\t", "\n", " ", "-", "0","1","2","3","4","5","6","7","8","9", ":">>
    \o UpperCase \o <<"_">> \o LowerCase

ord(c) == CHOOSE i \in DOMAIN CodePoints : CodePoints[i] = c

\* a < b for two str
RECURSIVE str_less(_, _)
str_less(a, b) ==
    IF b = <<>> THEN FALSE
    ELSE IF a = <<>> THEN TRUE
    ELSE IF Head(a) = Head(b) THEN str_less(Tail(a), Tail(b))
    ELSE ord(Head(a)) < ord(Head(b))

\* sorted(list) for a list of distinct str
RECURSIVE sorted(_)
sorted(list) ==
    IF list = <<>> THEN <<>>
    ELSE LET least == CHOOSE x \in elements(list) :
                          \A y \in elements(list) : y = x \/ str_less(x, y)
         IN  <<least>> \o sorted(SelectSeq(list, LAMBDA y : y # least))

\* mutant: every child of an "Undefined" key counts as redundant
is_redundant_always(child_structure, current_undefined_label) == TRUE

\* _is_redundant_undefined_child: empty, a list of the label only, or a
\* dict whose keys are all the label and whose children are all redundant
RECURSIVE is_redundant_undefined_child(_, _)
is_redundant_undefined_child(child_structure, current_undefined_label) ==
    IF child_structure.items = <<>> THEN TRUE
    ELSE IF child_structure.kind = "list"
    THEN \A i \in 1..Len(child_structure.items) :
             child_structure.items[i] = current_undefined_label
    ELSE \A i \in 1..Len(child_structure.items) :
             /\ child_structure.items[i][1] = current_undefined_label
             /\ is_redundant_undefined_child(child_structure.items[i][2],
                                             current_undefined_label)

\* list(series_to_process.dropna().unique())
row_values(series) == unique(dropna(series))

\* mutant: an absent column is shown in the tree by its name
absent_column_named(col_reference) == list_of(<<col_reference>>)

\* what the except KeyError branch of _recursive_build hands back when the
\* column is not among the available columns
absent_column(col_reference) == EmptyDict

\* _recursive_build of convert_df_rows_to_nested_dict; current_df_slice is
\* the sequence rows of row numbers of t
RECURSIVE recursive_build_rows(_, _, _, _, _)
recursive_build_rows(t, rows, hierarchy_columns_list, level_idx, undefined_label) ==
    IF level_idx >= Len(hierarchy_columns_list) THEN EmptyDict
    ELSE IF columns_of(t, hierarchy_columns_list[level_idx + 1]) = {}
    THEN absent_column(hierarchy_columns_list[level_idx + 1])
    ELSE
        LET j == first_of(t, hierarchy_columns_list[level_idx + 1])
            series_to_process == [i \in 1..Len(rows) |-> t.data[rows[i]][j]]
            unique_vals == row_values(series_to_process)
            next_slice(val) == SelectSeq(rows, LAMBDA r : t.data[r][j] = val)
            temp_current_level_dict ==
                [i \in 1..Len(unique_vals) |->
                    <<unique_vals[i],
                      recursive_build_rows(t, next_slice(unique_vals[i]),
                          hierarchy_columns_list, level_idx + 1,
                          undefined_label)>>]
            final_current_level_dict ==
                SelectSeq(temp_current_level_dict,
                    LAMBDA e : ~(/\ e[1] = undefined_label
                                 /\ is_redundant_undefined_child(e[2],
                                        undefined_label)))
        IN  IF /\ final_current_level_dict # <<>>
               /\ \A i \in 1..Len(final_current_level_dict) :
                      is_empty_dict(final_current_level_dict[i][2])
            THEN list_of([i \in 1..Len(final_current_level_dict) |->
                             final_current_level_dict[i][1]])
            ELSE dict_of(final_current_level_dict)

\* DataFrame.copy(): a new table holding the same cells
copy(t) == t

\* the tree; no statement of the builder raises on a table and a list: the
\* KeyError of the column lookup is caught
convert_df_rows_to_nested_dict(df_input, hierarchy_columns_list) ==
    IF hierarchy_columns_list = <<>> THEN EmptyDict
    ELSE recursive_build_rows(copy(df_input),
             [r \in 1..nrows(df_input) |-> r],
             hierarchy_columns_list, 0, s_Undefined)

\* mutant: the sentinel fill writes into the table it was handed
fill_undefined_sequentially_in_place(df_input, column_names_list) ==
    IF fill_undefined_sequentially(df_input, column_names_list).raised
    THEN df_input
    ELSE fill_undefined_sequentially(df_input, column_names_list).df

\* the caller's table after fill_undefined_sequentially: df is bound to a
\* copy of df_input and every assignment of the loop goes to df
fill_undefined_sequentially_df_input(df_input, column_names_list) == df_input

\* the caller's table after forward_fill_column_nans: the columns are
\* assigned into the copy df
forward_fill_column_nans_input_df(input_df, columns_to_process_list) == input_df

\* the caller's table after convert_df_rows_to_nested_dict: the builder
\* reads and slices df_copy only
convert_df_rows_to_nested_dict_df_input(df_input, hierarchy_columns_list) ==
    df_input

\* mutant: a branch whose label is "Header" is built like any other
skips_header_never(value) == FALSE

\* the two `continue` of the loop of _recursive_build over the level values
skips_header(value) == isna(value) \/ value = s_Header

\* _recursive_build of convert_df_headers_to_nested_dict;
\* current_column_structure is a sequence of keys of equal length >= 1
RECURSIVE recursive_build_headers(_)
recursive_build_headers(current_column_structure) ==
    IF current_column_structure = <<>> THEN EmptyDict
    ELSE
        LET level_values == [i \in 1..Len(current_column_structure) |->
                                current_column_structure[i][1]]
            unique_values_at_this_level ==
                SelectSeq(unique(level_values), LAMBDA v : ~skips_header(v))
            branch(value) ==
                SelectSeq(current_column_structure, LAMBDA k : k[1] = value)
            child_result(value) ==
                IF Len(branch(value)[1]) > 1
                THEN recursive_build_headers(
                         [i \in 1..Len(branch(value)) |-> Tail(branch(value)[i])])
                ELSE EmptyDict
            entry(value) ==
                LET c == child_result(value)
                IN  IF /\ c.items # <<>>
                       /\ \A i \in 1..Len(c.items) : is_empty_dict(c.items[i][2])
                    THEN <<value, list_of(sorted(keys_of(c)))>>
                    ELSE <<value, c>>
        IN  dict_of([i \in 1..Len(unique_values_at_this_level) |->
                        entry(unique_values_at_this_level[i])])

\* the entry of one requested top-level name
header_entry(t, start_column_top_level_name) ==
    IF columns_of(t, start_column_top_level_name) = {} THEN EmptyDict
    ELSE LET relevant_columns ==
                 SelectSeq(t.columns,
                           LAMBDA k : k[1] = start_column_top_level_name)
             structure_for_recursion ==
                 [i \in 1..Len(relevant_columns) |-> Tail(relevant_columns[i])]
         IN  recursive_build_headers(structure_for_recursion)

\* the loop over column_names_list: combined_result[name] = ...
RECURSIVE combined_result(_, _, _)
combined_result(t, column_names_list, result) ==
    IF column_names_list = <<>> THEN result
    ELSE combined_result(t, Tail(column_names_list),
             dict_set(result, Head(column_names_list),
                      IF t.multi
                      THEN header_entry(t, Head(column_names_list))
                      ELSE EmptyDict))

\* a dict name -> subtree; a MultiIndex has at least two levels
convert_df_headers_to_nested_dict(t, column_names_list) ==
    dict_of(combined_result(t, column_names_list, <<>>))

(***************************************************************************)
(* Header matrices of arbitrary column axes: SpecHeader                    *)
(***************************************************************************)
\* the header grid (levels x columns) holds at most MaxCells labels
MaxCells == 9

s_A == <<"A">>
s_B == <<"B">>
HeaderLabels == {s_A, s_B, s_Header}
HeaderDepths == {2, 3}

\* every column axis of 2 or 3 levels within the bound
ColumnAxes ==
    UNION {[1..n -> [1..L -> HeaderLabels]] :
              <<L, n>> \in {x \in HeaderDepths \X (1..MaxCells) :
                               x[1] * x[2] <= MaxCells}}

Idle == <<>>

InitHeader ==
    /\ pc = "result"
    /\ \E axis \in ColumnAxes :
           final_df = [raised |-> FALSE,
                       df |-> [multi |-> TRUE, columns |-> axis, data |-> <<>>]]
    /\ raw_df = Idle
    /\ df = Idle
    /\ feature_rows = <<>>
    /\ feature_cols = <<>>
    /\ row_dict = Idle
    /\ col_dict = Idle
    /\ handed = Idle
    /\ row_selection = <<>>
    /\ col_selection = <<>>
    /\ header_matrix = Idle
    /\ flattened_headers = Idle
    /\ acronym_text = Idle
    /\ acronym = Idle
    /\ parsed_row_paths = Idle
    /\ parsed_col_paths = Idle
    /\ selected_columns = Idle

\* extract_hierarchical_table_info, called on a result table ("result") or
\* by the query loop on a rendered table that is not empty ("rendered")
PostProcess ==
    /\ pc \in {"result", "rendered"}
    /\ pc = "rendered" => (~final_df.raised /\ ~empty(final_df.df))
    /\ header_matrix' = extract_hierarchical_table_info(final_df.df).header_matrix
    /\ flattened_headers' =
           extract_hierarchical_table_info(final_df.df).flattened_headers
    /\ pc' = "posted"
    /\ UNCHANGED <<file_vars, query_vars, text_vars, parse_vars>>

NextHeader == PostProcess

SpecHeader == InitHeader /\ [][NextHeader]_vars

\* the emitted cells of the matrix, all levels together
matrix_cells == UNION {elements(header_matrix[l]) : l \in 1..Len(header_matrix)}

\* does a cell cover level lvl at column position col
covers(cell, lvl, col) ==
    /\ cell.position <= col /\ col < cell.position + cell.colspan
    /\ cell.level <= lvl /\ lvl < cell.level + cell.rowspan

\* C1: in every built header matrix, every (level, column position) pair is
\* covered by exactly one emitted cell: no gap and no double coverage.
C1_Coverage ==
    pc = "posted" =>
        \A lvl \in 0..(axis_nlevels(final_df.df.columns) - 1) :
            \A col \in 0..(Len(final_df.df.columns) - 1) :
                Cardinality({cell \in matrix_cells : covers(cell, lvl, col)}) = 1

\* a 3-level axis where one cell spans two columns and another spans down
C1_Witness ==
    /\ pc = "posted"
    /\ axis_nlevels(final_df.df.columns) = 3
    /\ \E cell \in matrix_cells : cell.colspan > 1 /\ cell.rowspan = 1
    /\ \E cell \in matrix_cells : cell.rowspan = 3
    /\ \E j \in 1..Len(final_df.df.columns) : final_df.df.columns[j][1] = s_Header

(***************************************************************************)
(* Ingestion of raw tables: SpecIngest                                     *)
(***************************************************************************)
\* a raw table holds at most MaxRows rows
MaxRows == 3

s_K1 == <<"K","1">>
s_K2 == <<"K","2">>
s_K3 == <<"K","3">>
s_Val == <<"V","a","l">>
s_Sum == <<"S","u","m">>
KeyNames == <<s_K1, s_K2, s_K3>>

\* the label pandas gives the blank second header cell of column j
unnamed(j) == s_Unnamed \o <<" ", <<"0","1","2","3">>[j]>>

\* the key written in row r: one letter per row, so that a value carried
\* down by the forward fill is told from the row's own
RowLetters == <<"a","b","c","d","e","f">>
key_value(r) == <<RowLetters[r]>>

\* three key columns, blank below the top header row, and one value column
RawColumns(multi) ==
    IF multi
    THEN <<<<s_K1, unnamed(1)>>, <<s_K2, unnamed(2)>>, <<s_K3, unnamed(3)>>,
           <<s_Val, s_Sum>>>>
    ELSE <<<<s_K1>>, <<s_K2>>, <<s_K3>>, <<s_Val>>>>

\* every raw table: each key cell is blank (NaN) or holds its row's key
RawTables ==
    {[multi |-> m,
      columns |-> RawColumns(m),
      data |-> [r \in 1..n |->
                   [j \in 1..4 |-> IF j = 4 THEN Num("7")
                                   ELSE IF blank[r][j] THEN NaN
                                   ELSE key_value(r)]]] :
        m \in BOOLEAN,
        n \in 1..MaxRows,
        blank \in [1..MaxRows -> [1..3 -> BOOLEAN]]}

\* every ordered list of distinct key columns (at least one)
FeatureLists ==
    {<<KeyNames[a]>> : a \in 1..3}
    \cup {<<KeyNames[x[1]], KeyNames[x[2]]>> :
             x \in {y \in (1..3) \X (1..3) : y[1] # y[2]}}
    \cup {<<KeyNames[x[1]], KeyNames[x[2]], KeyNames[x[3]]>> :
             x \in {y \in (1..3) \X (1..3) \X (1..3) :
                       Cardinality({y[1], y[2], y[3]}) = 3}}

InitIngest ==
    /\ pc = "loaded"
    /\ raw_df \in RawTables
    /\ df = raw_df
    /\ feature_rows \in FeatureLists
    /\ feature_cols = <<s_Val>>
    /\ row_dict = Idle
    /\ col_dict = Idle
    /\ handed = Idle
    /\ row_selection = <<>>
    /\ col_selection = <<>>
    /\ final_df = Idle
    /\ header_matrix = Idle
    /\ flattened_headers = Idle
    /\ acronym_text = Idle
    /\ acronym = Idle
    /\ parsed_row_paths = Idle
    /\ parsed_col_paths = Idle
    /\ selected_columns = Idle

\* steps 6 and 7 of extract_file_metadata, when no step raises: the table
\* is normalized and the two hierarchy trees are built from it
Preprocess ==
    /\ pc = "loaded"
    /\ ~preprocess(df, feature_rows).raised
    /\ LET cleaned == clean_unnamed_header(df, nlevels(df))
           filled == fill_undefined_sequentially(cleaned, feature_rows).df
           normalized == preprocess(df, feature_rows).df
       IN  /\ df' = normalized
           /\ row_dict' = convert_df_rows_to_nested_dict(normalized, feature_rows)
           /\ col_dict' = convert_df_headers_to_nested_dict(normalized,
                                                            feature_cols)
           /\ handed' =
                  [fill |-> fill_undefined_sequentially_df_input(cleaned,
                                feature_rows),
                   ffill |-> forward_fill_column_nans_input_df(filled,
                                 feature_rows),
                   rows |-> convert_df_rows_to_nested_dict_df_input(normalized,
                                feature_rows)]
    /\ pc' = "ready"
    /\ UNCHANGED <<raw_df, feature_rows, feature_cols, query_vars, post_vars,
                   text_vars, parse_vars>>

\* step 6 of extract_file_metadata, when a step raises: the exception is
\* logged and raised again, no metadata is stored
PreprocessFails ==
    /\ pc = "loaded"
    /\ preprocess(df, feature_rows).raised
    /\ pc' = "failed"
    /\ UNCHANGED <<file_vars, query_vars, post_vars, text_vars, parse_vars>>

NextIngest == Preprocess \/ PreprocessFails

SpecIngest == InitIngest /\ [][NextIngest]_vars

(***************************************************************************)
(* Queries against processed files: SpecQuery                              *)
(***************************************************************************)
\* the two selection texts of a query hold at most MaxLines lines together
MaxLines == 3

s_City == <<"C","i","t","y">>
s_Dist == <<"D","i","s","t">>
s_Zone == <<"Z","o","n","e">>
s_Inc == <<"I","n","c">>
s_Low == <<"L","o","w">>
s_High == <<"H","i","g","h">>
s_HN == <<"H","N">>
s_HCM == <<"H","C","M">>
s_CG == <<"C","G">>
s_BD == <<"B","D">>
s_X == <<"X">>

\* a two-level table: keys City and Dist, values under Inc -> {Low, High}
RawCityTable ==
    [multi |-> TRUE,
     columns |-> <<<<s_City, unnamed(1)>>, <<s_Dist, unnamed(2)>>,
                   <<s_Inc, s_Low>>, <<s_Inc, s_High>>>>,
     data |-> <<<<s_HN, s_CG, Num("1"), Num("2")>>,
                <<NaN, s_BD, Num("3"), Num("4")>>,
                <<s_HCM, NaN, Num("5"), Num("6")>>>>]

\* a table with a single header row: a flat column axis
RawFlatTable ==
    [multi |-> FALSE,
     columns |-> <<<<s_City>>, <<s_Inc>>>>,
     data |-> <<<<s_HN, Num("1")>>, <<s_HCM, Num("2")>>>>]

\* the processed files and the feature rows handed to the renderer: the
\* file's own list, none (the parameter's default), or a list naming a
\* column the table does not have
Files ==
    {[raw |-> RawCityTable, names |-> <<s_City, s_Dist>>, arg |-> <<s_City, s_Dist>>,
      cols |-> <<s_Inc>>],
     [raw |-> RawCityTable, names |-> <<s_City, s_Dist>>, arg |-> <<>>,
      cols |-> <<s_Inc>>],
     [raw |-> RawCityTable, names |-> <<s_City, s_Dist>>, arg |-> <<s_Dist, s_Zone>>,
      cols |-> <<s_Inc>>],
     [raw |-> RawFlatTable, names |-> <<s_City>>, arg |-> <<s_City>>,
      cols |-> <<s_Inc>>],
     [raw |-> RawFlatTable, names |-> <<s_City>>, arg |-> <<>>,
      cols |-> <<s_Inc>>]}

\* the metadata extract_file_metadata stores for a file
uploaded(f) ==
    [df |-> preprocess(f.raw, f.names).df,
     row_dict |-> convert_df_rows_to_nested_dict(preprocess(f.raw, f.names).df,
                                                 f.names),
     col_dict |-> convert_df_headers_to_nested_dict(
                      preprocess(f.raw, f.names).df, f.cols)]

spaces(n) == [i \in 1..n |-> " "]

\* a line "<indent><label>: <value>"
text_line(indent, label, value) == spaces(indent) \o label \o <<":", " ">> \o value

s_level(d) == s_level_ \o <<d>>

RowLines ==
    {text_line(0, s_City, s_HN),
     text_line(0, s_City, s_HCM),
     text_line(0, s_City, s_Undefined),
     text_line(0, s_City, s_HN \o <<",", " ">> \o s_HCM),
     text_line(4, s_Dist, s_CG),
     text_line(4, s_Dist, s_undefined),
     text_line(0, s_Zone, s_X),
     text_line(4, s_Zone, s_X)}

ColLines ==
    {text_line(0, s_level("1"), s_Inc),
     text_line(0, s_level("1"), s_City),
     text_line(4, s_level("2"), s_Low),
     text_line(4, s_level("3"), s_X),
     text_line(0, s_level("x"), s_Inc)}

\* the lists of at most n lines drawn from a set of lines
LineLists(lines, n) == UNION {[1..k -> lines] : k \in 0..n}

\* the "Ca phe" table of the hierarchy documentation (prompt.py), written
\* without diacritics; merged key cells are blank below their first row
s_Ca_phe == <<"C","a"," ","p","h","e">>
s_Loai == <<"L","o","a","i">>
s_Nhap_Khau == <<"N","h","a","p"," ","K","h","a","u">>
s_Thoi_gian == <<"T","h","o","i"," ","g","i","a","n">>
s_Thu_nhap == <<"T","h","u"," ","n","h","a","p">>
s_He == <<"H","e">>
s_Dong == <<"D","o","n","g">>
s_Thap == <<"T","h","a","p">>
s_Trung_Binh == <<"T","r","u","n","g"," ","B","i","n","h">>
s_Cao == <<"C","a","o">>
s_Ca_phe_thuong == <<"C","a"," ","p","h","e"," ","t","h","u","o","n","g">>
s_Ca_phe_Den == <<"C","a"," ","p","h","e"," ","D","e","n">>
s_Loai_1 == <<"L","o","a","i"," ","1">>
s_Loai_2 == <<"L","o","a","i"," ","2">>
s_Viet_Nam == <<"V","i","e","t"," ","N","a","m">>
s_Brazil == <<"B","r","a","z","i","l">>
s_My == <<"M","y">>

\* the five value cells of row r
coffee_values(r) == [j \in 1..5 |-> Num(<<r, j>>)]

RawCoffeeTable ==
    [multi |-> TRUE,
     columns |-> <<<<s_Ca_phe, unnamed(1)>>, <<s_Loai, unnamed(2)>>,
                   <<s_Nhap_Khau, unnamed(3)>>,
                   <<s_Thoi_gian, s_He>>, <<s_Thoi_gian, s_Dong>>,
                   <<s_Thu_nhap, s_Thap>>, <<s_Thu_nhap, s_Trung_Binh>>,
                   <<s_Thu_nhap, s_Cao>>>>,
     data |-> <<<<s_Ca_phe_thuong, s_Loai_1, s_Viet_Nam>> \o coffee_values(1),
                <<NaN, NaN, s_Brazil>> \o coffee_values(2),
                <<NaN, NaN, s_My>> \o coffee_values(3),
                <<NaN, s_Loai_2, s_Viet_Nam>> \o coffee_values(4),
                <<NaN, NaN, s_My>> \o coffee_values(5),
                <<s_Ca_phe_Den, s_Loai_2, s_Viet_Nam>> \o coffee_values(6)>>]

CoffeeFile ==
    [raw |-> RawCoffeeTable,
     names |-> <<s_Ca_phe, s_Loai, s_Nhap_Khau>>,
     arg |-> <<s_Ca_phe, s_Loai, s_Nhap_Khau>>,
     cols |-> <<s_Thoi_gian, s_Thu_nhap>>]

\* a row selection naming the three feature rows, one per line
coffee_rows(a, b, c) ==
    join_lines(<<text_line(0, s_Ca_phe, a), text_line(4, s_Loai, b),
                 text_line(8, s_Nhap_Khau, c)>>)

\* a column selection: a top-level header alone or with a sub-header
coffee_cols(a, b) ==
    IF b = <<>> THEN text_line(0, s_level("1"), a)
    ELSE join_lines(<<text_line(0, s_level("1"), a),
                      text_line(4, s_level("2"), b)>>)

\* the selections asked of the "Ca phe" table
CoffeeSelections ==
    {<<coffee_rows(a, b, c), coffee_cols(x, y)>> :
        a \in {s_Ca_phe_Den, s_Ca_phe_thuong, s_Undefined},
        b \in {s_Loai_1, s_Loai_2, s_Undefined},
        c \in {s_Viet_Nam, s_My, s_Undefined},
        x \in {s_Thoi_gian, s_Thu_nhap},
        y \in {<<>>, s_He, s_Dong, s_Cao}}

\* the selections the splitter may hand to the renderer for a file: the
\* pairs of texts holding at most MaxLines lines together, or the
\* selections asked of the "Ca phe" table
Selections(raw) ==
    IF raw = RawCoffeeTable THEN CoffeeSelections
    ELSE UNION {{<<join_lines(rl), join_lines(cl)>> :
                    cl \in LineLists(ColLines, MaxLines - Len(rl))} :
                       rl \in LineLists(RowLines, MaxLines)}

InitQuery ==
    /\ pc = "ready"
    /\ \E f \in Files :
           /\ raw_df = f.raw
           /\ df = uploaded(f).df
           /\ feature_rows = f.arg
           /\ row_dict = uploaded(f).row_dict
           /\ col_dict = uploaded(f).col_dict
           /\ feature_cols = f.cols
    /\ handed = Idle
    /\ row_selection = <<>>
    /\ col_selection = <<>>
    /\ final_df = Idle
    /\ header_matrix = Idle
    /\ flattened_headers = Idle
    /\ acronym_text = Idle
    /\ acronym = Idle
    /\ parsed_row_paths = Idle
    /\ parsed_col_paths = Idle
    /\ selected_columns = Idle

\* process_single_file_query: the selections of the splitter are rendered
Query ==
    /\ pc = "ready"
    /\ \E sel \in Selections(raw_df) :
           /\ row_selection' = sel[1]
           /\ col_selection' = sel[2]
           /\ final_df' = render_filtered_dataframe(df, sel[1], sel[2],
                                                    feature_rows)
           /\ df' = render_filtered_dataframe_df(df, sel[1], sel[2],
                                                 feature_rows)
    /\ pc' = "rendered"
    /\ UNCHANGED <<raw_df, feature_rows, feature_cols, row_dict, col_dict,
                   handed, post_vars, text_vars, parse_vars>>

\* the result is returned to the caller; the selections and the table
\* structures of the query are discarded
Deliver ==
    /\ pc \in {"rendered", "posted"}
    /\ pc' = "ready"
    /\ row_selection' = <<>>
    /\ col_selection' = <<>>
    /\ final_df' = Idle
    /\ header_matrix' = Idle
    /\ flattened_headers' = Idle
    /\ UNCHANGED <<file_vars, text_vars, parse_vars>>

NextQuery == Query \/ PostProcess \/ Deliver

SpecQuery == InitQuery /\ [][NextQuery]_vars

\* queries against the processed "Ca phe" file
InitCoffee ==
    /\ pc = "ready"
    /\ raw_df = CoffeeFile.raw
    /\ df = uploaded(CoffeeFile).df
    /\ feature_rows = CoffeeFile.arg
    /\ feature_cols = CoffeeFile.cols
    /\ row_dict = uploaded(CoffeeFile).row_dict
    /\ col_dict = uploaded(CoffeeFile).col_dict
    /\ handed = Idle
    /\ row_selection = <<>>
    /\ col_selection = <<>>
    /\ final_df = Idle
    /\ header_matrix = Idle
    /\ flattened_headers = Idle
    /\ acronym_text = Idle
    /\ acronym = Idle
    /\ parsed_row_paths = Idle
    /\ parsed_col_paths = Idle
    /\ selected_columns = Idle

SpecCoffee == InitCoffee /\ [][NextQuery]_vars

(***************************************************************************)
(* Properties of the selector (SpecQuery)                                  *)
(***************************************************************************)
\* the paths and the mask of the query being rendered
q_row_paths == parse_row_paths(row_selection)
q_col_parse == parse_col_paths(col_selection)
q_col_paths == q_col_parse.paths
q_row_condition == create_row_condition(df, q_row_paths)
q_mask == q_row_condition.mask
q_column_tuples == create_column_tuples(df, q_col_paths)

\* the word "Undefined" in any letter case
IsUndefinedWord(v) ==
    /\ Len(v) = Len(s_undefined)
    /\ \A i \in 1..Len(v) : v[i] \in {s_undefined[i], s_UNDEFINED[i]}

\* does a name occur in some column key of the table
NamesColumn(name) == \E j \in 1..ncols(df) : name \in elements(df.columns[j])

\* the position of the first column whose key holds the name
PositionOf(name) ==
    CHOOSE j \in 1..ncols(df) :
        /\ name \in elements(df.columns[j])
        /\ \A k \in 1..(j-1) : name \notin elements(df.columns[k])

\* an entry of a row path holds of row r: it is a wildcard, or the row's
\* cell is the value or one of its comma-separated alternatives
EntryHolds(e, r) ==
    \/ IsUndefinedWord(e[2])
    \/ df.data[r][PositionOf(e[1])] \in entry_values(e[2])

\* every entry of every path names a column of the table
AllFeaturesKnown(paths) ==
    \A p \in 1..Len(paths) : \A e \in elements(paths[p]) : NamesColumn(e[1])

\* C2: the mask selects a row iff some path has all its entries that are not
\* "Undefined" matching the row (AND within a path, the empty conjunction
\* being true; OR between paths).  Stated for paths over the table's columns.
C2_OrOfAnd ==
    (pc = "rendered" /\ q_row_paths # <<>> /\ AllFeaturesKnown(q_row_paths)) =>
        \A r \in 1..nrows(df) :
            q_mask[r] <=>
                \E p \in 1..Len(q_row_paths) :
                    \A e \in elements(q_row_paths[p]) : EntryHolds(e, r)

\* C3: with no row path, or with every entry of every path "Undefined" in
\* any letter case, every row of the table is selected.
C3_IdentityMask ==
    (/\ pc = "rendered"
     /\ \A p \in 1..Len(q_row_paths) :
            \A e \in elements(q_row_paths[p]) : IsUndefinedWord(e[2]))
    => /\ ~q_row_condition.raised
       /\ \A r \in 1..nrows(df) : q_mask[r]
       /\ ~final_df.raised => nrows(final_df.df) = nrows(df)

\* a path of two wildcard entries, one in lower case, on a table of 3 rows
C3_Witness ==
    /\ pc = "rendered"
    /\ Len(q_row_paths) = 1
    /\ Len(q_row_paths[1]) = 2
    /\ q_row_paths[1][1][2] = s_Undefined
    /\ q_row_paths[1][2][2] = s_undefined
    /\ nrows(df) = 3
    /\ ~final_df.raised
    /\ nrows(final_df.df) = 3

\* every level the path names is a level of the header
InDepth(path) == \A e \in elements(path) : e[1] \in 1..nlevels(df)

\* the key carries the path's value at every level the path names
KeyFits(key, path) == \A e \in elements(path) : key[e[1]] = e[2]

\* C4: a column path naming only some header levels selects every column
\* whose key carries the path's values at those levels (level i is key
\* index i-1 of the source, i here), the other levels being wildcards.
C4_MultiMatch ==
    (pc = "rendered" /\ ~q_col_parse.raised) =>
        \A i \in 1..Len(q_col_paths) :
            InDepth(q_col_paths[i]) =>
                \A j \in 1..ncols(df) :
                    KeyFits(df.columns[j], q_col_paths[i]) =>
                        /\ df.columns[j] \in elements(q_column_tuples)
                        /\ ~final_df.raised
                        /\ df.columns[j] \in elements(final_df.df.columns)

\* the single path {level_1: Inc} selects both leaf columns of Inc
C4_Witness ==
    /\ pc = "rendered"
    /\ df.multi /\ nlevels(df) = 2
    /\ q_col_paths = << << <<1, s_Inc>> >> >>
    /\ q_column_tuples = <<<<s_Inc, s_Low>>, <<s_Inc, s_High>>>>
    /\ ~final_df.raised
    /\ {<<s_Inc, s_Low>>, <<s_Inc, s_High>>} \subseteq elements(final_df.df.columns)

\* the list keeps table column order and repeats no column
IsColumnSubsequence(list) ==
    \A a \in 1..Len(list) : \A b \in 1..Len(list) :
        a < b => column_index(df, list[a]) < column_index(df, list[b])

\* C5 as claimed: whatever the column paths, the selected columns are a
\* subsequence of the table's column order (table order, none twice).
C5_Subsequence ==
    (pc = "rendered" /\ ~q_col_parse.raised) =>
        IsColumnSubsequence(q_column_tuples)

\* does the path select column j: on a MultiIndex the key carries the path's
\* value at every named level of the header; on a flat axis the path names
\* level 1 with the column's name
PathSelects(path, j) ==
    IF df.multi
    THEN \A e \in elements(path) :
             e[1] \in 1..nlevels(df) => df.columns[j][e[1]] = e[2]
    ELSE \E e \in elements(path) : e[1] = 1 /\ df.columns[j] = <<e[2]>>

PathCount(path) == Cardinality({j \in 1..ncols(df) : PathSelects(path, j)})

\* the number of columns the paths before path i select
RECURSIVE Offset(_, _)
Offset(paths, i) ==
    IF i <= 1 THEN 0
    ELSE Offset(paths, i - 1) + PathCount(paths[i - 1])

\* C5 amended: the columns of one path are a subsequence of the table's
\* column order, and the returned list is these per-path lists one after
\* the other in path order (a column several paths select comes once for
\* each of them).
C5_PerPathOrder ==
    (pc = "rendered" /\ ~q_col_parse.raised) =>
        /\ Len(q_column_tuples) = Offset(q_col_paths, Len(q_col_paths) + 1)
        /\ \A i \in 1..Len(q_col_paths) :
               LET off == Offset(q_col_paths, i)
                   seg == SubSeq(q_column_tuples, off + 1,
                                 off + PathCount(q_col_paths[i]))
               IN  /\ IsColumnSubsequence(seg)
                   /\ \A a \in 1..Len(seg) :
                          /\ has_column(df, seg[a])
                          /\ PathSelects(q_col_paths[i], column_index(df, seg[a]))

\* two paths selecting overlapping columns: Inc twice, or Inc then City
C5_Witness ==
    /\ pc = "rendered"
    /\ ~q_col_parse.raised
    /\ Len(q_col_paths) = 2
    /\ PathCount(q_col_paths[1]) = 2
    /\ PathCount(q_col_paths[2]) = 1
    /\ ~IsColumnSubsequence(q_column_tuples)
    /\ Len(q_column_tuples) = 3

\* the keys the feature rows resolve to, in the order given, a name that
\* names no column being left out
RECURSIVE ResolvedKeys(_)
ResolvedKeys(names) ==
    IF names = <<>> THEN <<>>
    ELSE (IF NamesColumn(Head(names))
          THEN <<df.columns[PositionOf(Head(names))]>> ELSE <<>>)
         \o ResolvedKeys(Tail(names))

\* the positions where the mask is true, in increasing order
RECURSIVE TruePositions(_, _)
TruePositions(mask, r) ==
    IF r > Len(mask) THEN <<>>
    ELSE (IF mask[r] THEN <<r>> ELSE <<>>) \o TruePositions(mask, r + 1)

\* the masked rows of the table, in their order, cut to the listed columns
MaskedRows(keys) ==
    LET at == TruePositions(q_mask, 1)
    IN  [k \in 1..Len(at) |->
            [j \in 1..Len(keys) |-> df.data[at[k]][column_index(df, keys[j])]]]

C7_AllColumns ==
    (pc = "rendered" /\ ~final_df.raised /\ q_col_paths = <<>>) =>
        /\ final_df.df.columns = df.columns
        /\ final_df.df.data = MaskedRows(df.columns)

\* the entries of a row path that name a column of the table
RECURSIVE KnownEntries(_)
KnownEntries(path) ==
    IF path = <<>> THEN <<>>
    ELSE (IF NamesColumn(Head(path)[1]) THEN <<Head(path)>> ELSE <<>>)
         \o KnownEntries(Tail(path))

\* the entries of a column path whose level does not exceed the header depth
RECURSIVE InDepthEntries(_)
InDepthEntries(path) ==
    IF path = <<>> THEN <<>>
    ELSE (IF Head(path)[1] <= nlevels(df) THEN <<Head(path)>> ELSE <<>>)
         \o InDepthEntries(Tail(path))

\* C8: a row path entry whose feature names no column and a column path
\* entry whose level exceeds the header depth add no constraint (the mask
\* and the selected columns are those of the paths without these entries),
\* nothing is raised for them and rendering returns a table.
C8_OutOfSchemaIgnored ==
    pc = "rendered" =>
        /\ ~q_row_condition.raised
        /\ q_mask = create_row_condition(df,
               [p \in 1..Len(q_row_paths) |-> KnownEntries(q_row_paths[p])]).mask
        /\ ~q_col_parse.raised =>
               /\ q_column_tuples = create_column_tuples(df,
                      [p \in 1..Len(q_col_paths) |-> InDepthEntries(q_col_paths[p])])
               /\ ~final_df.raised
               /\ Len(final_df.df.data) = Len(TruePositions(q_mask, 1))

\* a row path with a known and an unknown feature, a column path with a
\* level past the header depth; rows and columns come out
C8_Witness ==
    /\ pc = "rendered"
    /\ df.multi
    /\ \E p \in 1..Len(q_row_paths) :
           /\ \E e \in elements(q_row_paths[p]) : ~NamesColumn(e[1])
           /\ \E e \in elements(q_row_paths[p]) :
                  NamesColumn(e[1]) /\ ~IsUndefinedWord(e[2])
    /\ \E p \in 1..Len(q_col_paths) :
           \E e \in elements(q_col_paths[p]) : e[1] > nlevels(df)
    /\ ~final_df.raised
    /\ nrows(final_df.df) \in 1..(nrows(df) - 1)
    /\ q_column_tuples # <<>>

(***************************************************************************)
(* Properties of the normalizer (SpecIngest)                               *)
(***************************************************************************)
\* the cell of row r under the feature row column called name
key_cell(t, r, name) == t.data[r][first_of(t, name)]

\* no Feature Row Column of the normalized table holds a null
NoNullKey ==
    \A r \in 1..nrows(df) : \A i \in 1..Len(feature_rows) :
        notna(key_cell(df, r, feature_rows[i]))

MaxTreeRows == 2

\* the values a cell of key column j may hold: null, the sentinel, or a
\* value of that column only
TreeCells(j) ==
    {NaN, s_Undefined} \cup (IF j = 1 THEN {<<"a">>, <<"b">>}
                             ELSE IF j = 2 THEN {<<"c">>}
                             ELSE {<<"d">>})

\* the rows a key table may hold
TreeRows ==
    {<<x, y, z>> : x \in TreeCells(1), y \in TreeCells(2), z \in TreeCells(3)}

\* every table of three key columns under a cleaned two-level header
TreeTables ==
    {[multi |-> TRUE,
      columns |-> <<<<s_K1, s_Header>>, <<s_K2, s_Header>>, <<s_K3, s_Header>>>>,
      data |-> cells] :
        cells \in UNION {[1..n -> TreeRows] : n \in 1..MaxTreeRows}}

\* the hierarchy lists handed to the builder; Zone is not a column
TreeLists ==
    {<<s_K1, s_K2, s_K3>>, <<s_K1, s_K2>>, <<s_K2, s_K1>>,
     <<s_K1, s_Zone, s_K3>>, <<s_Zone>>}

InitRowTree ==
    /\ pc = "table"
    /\ raw_df = Idle
    /\ df \in TreeTables
    /\ feature_rows \in TreeLists
    /\ feature_cols = <<>>
    /\ row_dict = Idle
    /\ col_dict = Idle
    /\ handed = Idle
    /\ row_selection = <<>>
    /\ col_selection = <<>>
    /\ final_df = Idle
    /\ header_matrix = Idle
    /\ flattened_headers = Idle
    /\ acronym_text = Idle
    /\ acronym = Idle
    /\ parsed_row_paths = Idle
    /\ parsed_col_paths = Idle
    /\ selected_columns = Idle

\* convert_df_rows_to_nested_dict(df, feature_rows)
BuildRowTree ==
    /\ pc = "table"
    /\ row_dict' = convert_df_rows_to_nested_dict(df, feature_rows)
    /\ pc' = "built"
    /\ UNCHANGED <<raw_df, df, feature_rows, feature_cols, col_dict, handed,
                   query_vars, post_vars, text_vars, parse_vars>>

NextRowTree == BuildRowTree

SpecRowTree == InitRowTree /\ [][NextRowTree]_vars

\* does v appear in the tree, as a mapping key or as a list element
RECURSIVE InTree(_, _)
InTree(node, v) ==
    IF node.kind = "list" THEN v \in elements(node.items)
    ELSE \E i \in 1..Len(node.items) :
             node.items[i][1] = v \/ InTree(node.items[i][2], v)

\* is every name of the list a column of the table
AllPresent(t, names) ==
    \A i \in 1..Len(names) : columns_of(t, names[i]) # {}

\* C11: every non-sentinel value that occurs in some row under some Feature
\* Row Column appears in the row hierarchy tree, as a mapping key or as a
\* list element (stated for lists all of whose columns are in the table).
C11_TreeCoverage ==
    (pc = "built" /\ AllPresent(df, feature_rows)) =>
        \A r \in 1..nrows(df) : \A i \in 1..Len(feature_rows) :
            LET v == df.data[r][first_of(df, feature_rows[i])]
            IN  (notna(v) /\ v # s_Undefined) => InTree(row_dict, v)

\* the position of the first name of the list that is not a column
FirstAbsent(t, names) ==
    CHOOSE i \in 1..Len(names) :
        /\ columns_of(t, names[i]) = {}
        /\ \A k \in 1..(i - 1) : columns_of(t, names[k]) # {}

MaxAxisColumns == 2

\* tables with no rows: a MultiIndex of 2 or 3 levels, or a flat axis
AxisTables ==
    {[multi |-> TRUE, columns |-> axis, data |-> <<>>] :
        axis \in UNION {[1..n -> [1..L -> HeaderLabels]] :
                           n \in 1..MaxAxisColumns, L \in HeaderDepths}}
    \cup {[multi |-> FALSE, columns |-> axis, data |-> <<>>] :
             axis \in UNION {[1..n -> [1..1 -> {s_A, s_B}]] :
                                n \in 1..MaxAxisColumns}}

\* the lists of top-level names requested; Zone is on no axis
NameLists ==
    {<<s_A, s_B>>, <<s_B, s_Zone, s_A>>, <<s_A, s_A>>, <<>>}

InitColTree ==
    /\ pc = "axis"
    /\ raw_df = Idle
    /\ df \in AxisTables
    /\ feature_rows = <<>>
    /\ feature_cols \in NameLists
    /\ row_dict = Idle
    /\ col_dict = Idle
    /\ handed = Idle
    /\ row_selection = <<>>
    /\ col_selection = <<>>
    /\ final_df = Idle
    /\ header_matrix = Idle
    /\ flattened_headers = Idle
    /\ acronym_text = Idle
    /\ acronym = Idle
    /\ parsed_row_paths = Idle
    /\ parsed_col_paths = Idle
    /\ selected_columns = Idle

\* convert_df_headers_to_nested_dict(df, feature_cols)
BuildColTree ==
    /\ pc = "axis"
    /\ col_dict' = convert_df_headers_to_nested_dict(df, feature_cols)
    /\ pc' = "treed"
    /\ UNCHANGED <<raw_df, df, feature_rows, feature_cols, row_dict, handed,
                   query_vars, post_vars, text_vars, parse_vars>>

NextColTree == BuildColTree

SpecColTree == InitColTree /\ [][NextColTree]_vars

\* the requested names without repetition, in the order requested
RECURSIVE Requested(_)
Requested(names) ==
    IF names = <<>> THEN <<>>
    ELSE LET before == Requested(SubSeq(names, 1, Len(names) - 1))
         IN  IF \E i \in 1..Len(before) : before[i] = names[Len(names)]
             THEN before ELSE Append(before, names[Len(names)])

\* is the name on no column, or are the labels below it all "Header"
NothingBelow(t, name) ==
    \A j \in 1..ncols(t) :
        t.columns[j][1] = name =>
            \A l \in 2..Len(t.columns[j]) : t.columns[j][l] = s_Header

\* C13: the header-tree builder returns a mapping with exactly one entry per
\* requested top-level name, in the order requested, and a requested name
\* that is absent from the column axis, or whose sub-level labels are all
\* the sentinel "Header", maps to the empty mapping.
C13_OneEntryPerName ==
    pc = "treed" =>
        /\ col_dict.kind = "dict"
        /\ keys_of(col_dict) = Requested(feature_cols)
        /\ \A i \in 1..Len(col_dict.items) :
               NothingBelow(df, col_dict.items[i][1]) =>
                   col_dict.items[i][2] = EmptyDict

\* three names requested, one absent, one above "Header" labels only and
\* one with a real sub-level
C13_Witness ==
    /\ pc = "treed"
    /\ df.multi
    /\ feature_cols = <<s_B, s_Zone, s_A>>
    /\ columns_of(df, s_A) # {} /\ NothingBelow(df, s_A)
    /\ columns_of(df, s_B) # {} /\ ~NothingBelow(df, s_B)
    /\ col_dict.items[1][2] # EmptyDict
    /\ col_dict.items[3][2] = EmptyDict

(***************************************************************************)
(* Properties of the parsers and of the query flow (SpecQuery)             *)
(***************************************************************************)
\* C14: for every selection text, parse_row_paths and parse_col_paths return
\* a list without raising: a malformed or partial line is skipped.
C14_ParsersNeverRaise ==
    pc = "rendered" =>
        /\ ~q_col_parse.raised
        /\ ~final_df.raised

\* the selections of the scenario
ScenarioRows == coffee_rows(s_Ca_phe_Den, s_Undefined, s_Viet_Nam)
ScenarioCols == coffee_cols(s_Thoi_gian, s_He)

\* C15: on the "Ca phe" table, the row selection Ca phe = Ca phe Den,
\* Loai = Undefined, Nhap Khau = Viet Nam with the column selection
\* level_1 = Thoi gian, level_2 = He returns exactly the one row
\* Ca phe Den / Viet Nam with exactly four columns: the three Feature Row
\* Columns followed by the He column.
C15_CoffeeScenario ==
    (/\ pc = "rendered"
     /\ row_selection = ScenarioRows
     /\ col_selection = ScenarioCols) =>
        final_df =
            [raised |-> FALSE,
             df |-> [multi |-> TRUE,
                     columns |-> <<<<s_Ca_phe, s_Header>>, <<s_Loai, s_Header>>,
                                   <<s_Nhap_Khau, s_Header>>,
                                   <<s_Thoi_gian, s_He>>>>,
                     data |-> <<<<s_Ca_phe_Den, s_Loai_2, s_Viet_Nam,
                                   coffee_values(6)[1]>>>>]]

\* the scenario's query was rendered
C15_Witness ==
    /\ pc = "rendered"
    /\ raw_df = RawCoffeeTable
    /\ row_selection = ScenarioRows
    /\ col_selection = ScenarioCols
    /\ ~final_df.raised
    /\ nrows(final_df.df) = 1

to_fill == clean_unnamed_header(raw_df, nlevels(raw_df))
to_ffill == fill_undefined_sequentially(to_fill, feature_rows).df
to_rows == forward_fill_column_nans(to_ffill, feature_rows).df

\* do two tables hold the same value in every cell, nulls included
SameCells(t, u) ==
    /\ t.columns = u.columns
    /\ nrows(t) = nrows(u)
    /\ \A r \in 1..nrows(t) : \A j \in 1..ncols(t) : t.data[r][j] = u.data[r][j]

MaxFlatCells == 6

s_Nam_1 == <<"N","a","m"," ","1">>
s_cP == <<"c","P">>

\* header labels: the sentinel, a cell reading "nan", a label of two words
\* with a number, a one-word label and a one-letter label
FlattenLabels == {s_Header, s_nan, s_Nam_1, s_cP, s_A}

\* every column axis of 2 or 3 levels within the bound
FlattenAxes ==
    UNION {[1..n -> [1..L -> FlattenLabels]] :
              <<L, n>> \in {x \in HeaderDepths \X (1..MaxFlatCells) :
                               x[1] * x[2] <= MaxFlatCells}}

InitFlatten ==
    /\ pc = "result"
    /\ \E axis \in FlattenAxes :
           final_df = [raised |-> FALSE,
                       df |-> [multi |-> TRUE, columns |-> axis, data |-> <<>>]]
    /\ raw_df = Idle
    /\ df = Idle
    /\ feature_rows = <<>>
    /\ feature_cols = <<>>
    /\ row_dict = Idle
    /\ col_dict = Idle
    /\ handed = Idle
    /\ row_selection = <<>>
    /\ col_selection = <<>>
    /\ header_matrix = Idle
    /\ flattened_headers = Idle
    /\ acronym_text = Idle
    /\ acronym = Idle
    /\ parsed_row_paths = Idle
    /\ parsed_col_paths = Idle
    /\ selected_columns = Idle

SpecFlatten == InitFlatten /\ [][NextHeader]_vars

\* the components of a key other than the sentinel
WithoutSentinel(key) == SelectSeq(key, LAMBDA c : c # s_Header)

\* the components of a key that are neither the sentinel nor read "nan"
Meaningful(key) == SelectSeq(key, LAMBDA c : c # s_Header /\ str(c) # s_nan)

\* the acronyms of all parts but the last, then the last part, each
\* preceded by a single space except the first
RECURSIVE Spaced(_)
Spaced(parts) ==
    IF Len(parts) = 1 THEN parts[1]
    ELSE create_acronym(Head(parts)) \o <<" ">> \o Spaced(Tail(parts))

\* the name the rule gives a column whose remaining components are parts
NameOf(parts) ==
    IF parts = <<>> THEN s_Column
    ELSE IF Len(parts) = 1 THEN parts[1]
    ELSE Spaced(parts)

\* C18 (as stated): one name per column, in column order, computed from the
\* key by dropping the sentinel components: "Column" if none remains, the
\* component verbatim if one remains, else the acronyms of all but the last
\* followed by the last verbatim, joined by single spaces.
C18_OnlySentinelDropped ==
    pc = "posted" =>
        /\ Len(flattened_headers) = ncols(final_df.df)
        /\ \A i \in 1..ncols(final_df.df) :
               flattened_headers[i] = NameOf(WithoutSentinel(final_df.df.columns[i]))

\* C18 (amended): the same rule, the components dropped being those equal
\* to the sentinel "Header" and those that read "nan".
C18_FlattenedNames ==
    pc = "posted" =>
        /\ Len(flattened_headers) = ncols(final_df.df)
        /\ \A i \in 1..ncols(final_df.df) :
               flattened_headers[i] = NameOf(Meaningful(final_df.df.columns[i]))

\* two columns: one whose parent is abbreviated before its leaf, one with
\* nothing but dropped components
C18_Witness ==
    /\ pc = "posted"
    /\ ncols(final_df.df) = 2
    /\ final_df.df.columns[1] = <<s_Nam_1, s_cP, s_A>>
    /\ flattened_headers[1] = <<"N","1"," ","c"," ","A">>
    /\ final_df.df.columns[2] = <<s_Header, s_nan, s_Header>>
    /\ flattened_headers[2] = s_Column

(***************************************************************************)
(* Acronyms of arbitrary texts: SpecAcronym                                *)
(***************************************************************************)
\* a text handed to create_acronym holds at most MaxText characters, or is
\* one of the examples
MaxText == 4

AcronymChars == {"a", "B", "1", "2", " ", "-"}

\* the examples of test_acronym_generation, written without diacritics
s_chi_phi == <<"c","h","i"," ","p","h","i">>
s_Chi_Phi == <<"C","h","i"," ","P","h","i">>
s_cap_1 == <<"c","a","p"," ","1">>
s_Nam_2024 == <<"N","a","m"," ","2","0","2","4">>
s_a1b2c3 == <<"a","1","b","2","c","3">>
ExampleTexts == {s_chi_phi, s_Chi_Phi, s_cap_1, s_Nam_2024, s_a1b2c3}

AcronymTexts ==
    UNION {[1..n -> AcronymChars] : n \in 0..MaxText} \cup ExampleTexts

InitAcronym ==
    /\ pc = "text"
    /\ acronym_text \in AcronymTexts
    /\ acronym = Idle
    /\ parsed_row_paths = Idle
    /\ parsed_col_paths = Idle
    /\ selected_columns = Idle
    /\ raw_df = Idle
    /\ df = Idle
    /\ feature_rows = <<>>
    /\ feature_cols = <<>>
    /\ row_dict = Idle
    /\ col_dict = Idle
    /\ handed = Idle
    /\ row_selection = <<>>
    /\ col_selection = <<>>
    /\ final_df = Idle
    /\ header_matrix = Idle
    /\ flattened_headers = Idle

\* create_acronym(text)
Abbreviate ==
    /\ pc = "text"
    /\ acronym' = create_acronym(acronym_text)
    /\ pc' = "abbreviated"
    /\ UNCHANGED <<acronym_text, file_vars, query_vars, post_vars, parse_vars>>

NextAcronym == Abbreviate

SpecAcronym == InitAcronym /\ [][NextAcronym]_vars

\* the last position of the word that begins at position i
WordEnd(t, i) ==
    CHOOSE k \in i..Len(t) :
        /\ \A m \in i..k : ~isspace(t[m])
        /\ (k = Len(t) \/ isspace(t[k + 1]))

\* the piece of a word: the word itself if it is made of digits only; its
\* first character that is not a digit followed by all its digits in order
\* if it mixes the two; its first character otherwise
Piece(w) ==
    IF \A i \in 1..Len(w) : isdigit(w[i]) THEN w
    ELSE IF \E i \in 1..Len(w) : isdigit(w[i])
    THEN <<w[CHOOSE i \in 1..Len(w) :
                 ~isdigit(w[i]) /\ \A k \in 1..(i - 1) : isdigit(w[k])]>>
         \o SelectSeq(w, isdigit)
    ELSE <<w[1]>>

\* the pieces of the words that begin at position i or later, concatenated
RECURSIVE PiecesFrom(_, _)
PiecesFrom(t, i) ==
    IF i > Len(t) THEN <<>>
    ELSE IF isspace(t[i]) THEN PiecesFrom(t, i + 1)
    ELSE Piece(SubSeq(t, i, WordEnd(t, i))) \o PiecesFrom(t, WordEnd(t, i) + 1)

\* C19: create_acronym maps a text to the concatenation, without
\* separators, of one piece per whitespace-separated word: a word of digits
\* is kept whole, a word that mixes letters and digits gives its first
\* letter followed by all its digits in order, any other word gives its
\* first character with its case unchanged ("chi phi" gives "cp",
\* "Chi Phi" gives "CP", "cap 1" gives "c1", "Nam 2024" gives "N2024",
\* "a1b2c3" gives "a123").
C19_Acronym ==
    pc = "abbreviated" =>
        /\ acronym = PiecesFrom(acronym_text, 1)
        /\ acronym_text = s_chi_phi => acronym = <<"c","p">>
        /\ acronym_text = s_Chi_Phi => acronym = <<"C","P">>
        /\ acronym_text = s_cap_1 => acronym = <<"c","1">>
        /\ acronym_text = s_Nam_2024 => acronym = <<"N","2","0","2","4">>
        /\ acronym_text = s_a1b2c3 => acronym = <<"a","1","2","3">>

\* a text of two words, the first mixing a digit and a capital
C19_Witness ==
    /\ pc = "abbreviated"
    /\ acronym_text = <<"1", "B", " ", "a">>
    /\ acronym = <<"B", "1", "a">>

(***************************************************************************)
(* Pruning of the row hierarchy tree (SpecRowTree)                         *)
(***************************************************************************)
\* the cell of row r under the lvl-th name of the hierarchy list
KeyCell(r, lvl) == df.data[r][first_of(df, feature_rows[lvl])]

\* is there, among the rows, a non-sentinel value at level lvl or deeper
\* that is reached through non-null keys only: what makes the structure
\* built from the rows at level lvl not redundant
HasValueBelow(rows, lvl) ==
    \E r \in rows : \E k \in lvl..Len(feature_rows) :
        /\ \A m \in lvl..k : /\ columns_of(df, feature_rows[m]) # {}
                             /\ notna(KeyCell(r, m))
        /\ KeyCell(r, k) # s_Undefined

\* the keys a node holds: the keys of a mapping, the elements of a list
NodeKeys(node) ==
    IF node.kind = "list" THEN node.items ELSE keys_of(node)

\* the child structure of the i-th key of a node: a list stands for keys
\* whose children are all empty
NodeChild(node, i) ==
    IF node.kind = "list" THEN EmptyDict ELSE node.items[i][2]

\* does the node built from the rows at level lvl keep exactly the entries
\* the pruning rule keeps, at this depth and at every deeper one
RECURSIVE PrunedAsRuled(_, _, _)
PrunedAsRuled(node, rows, lvl) ==
    IF lvl > Len(feature_rows) \/ columns_of(df, feature_rows[lvl]) = {}
    THEN node = EmptyDict
    ELSE
        LET seen == {KeyCell(r, lvl) : r \in rows} \ {NaN}
            under(v) == {r \in rows : KeyCell(r, lvl) = v}
            dropped == {v \in seen : /\ v = s_Undefined
                                     /\ ~HasValueBelow(under(v), lvl + 1)}
        IN  /\ elements(NodeKeys(node)) = seen \ dropped
            /\ Len(NodeKeys(node)) = Cardinality(seen \ dropped)
            /\ \A i \in 1..Len(NodeKeys(node)) :
                   PrunedAsRuled(NodeChild(node, i), under(NodeKeys(node)[i]),
                                 lvl + 1)

\* does a structure hold a non-sentinel value, as a key or as an element
RECURSIVE HoldsValue(_)
HoldsValue(node) ==
    \E i \in 1..Len(NodeKeys(node)) :
        NodeKeys(node)[i] # s_Undefined \/ HoldsValue(NodeChild(node, i))

\* is every "Undefined" entry of the tree, at every depth, above a
\* structure that holds a non-sentinel value
RECURSIVE NoRedundantBranch(_)
NoRedundantBranch(node) ==
    \A i \in 1..Len(NodeKeys(node)) :
        /\ NodeKeys(node)[i] = s_Undefined => HoldsValue(NodeChild(node, i))
        /\ NoRedundantBranch(NodeChild(node, i))

\* C20: in every tree returned by the row-tree builder, at every depth, an
\* entry is dropped if and only if its key equals the sentinel "Undefined"
\* and its child structure is redundant: no redundant "Undefined" branch
\* survives, and an "Undefined" key whose subtree holds a non-sentinel
\* value is kept.
C20_PrunedIffRedundant ==
    pc = "built" =>
        /\ PrunedAsRuled(row_dict, 1..nrows(df), 1)
        /\ NoRedundantBranch(row_dict)

\* a tree that keeps an "Undefined" key above a value, built from a table
\* where another "Undefined" branch, with nothing below it, was dropped
C20_Witness ==
    /\ pc = "built"
    /\ feature_rows = <<s_K1, s_K2, s_K3>>
    /\ row_dict.kind = "dict"
    /\ \E i \in 1..Len(row_dict.items) :
           /\ row_dict.items[i][1] = s_Undefined
           /\ HoldsValue(row_dict.items[i][2])
    /\ \E i \in 1..Len(row_dict.items) :
           /\ row_dict.items[i][1] = <<"a">>
           /\ row_dict.items[i][2] = EmptyDict
    /\ \E r \in 1..nrows(df) :
           df.data[r] = <<<<"a">>, s_Undefined, s_Undefined>>

(***************************************************************************)
(* Collapsing of the header tree (SpecColTree)                             *)
(***************************************************************************)
\* is the value of a node a non-empty mapping from labels to empty mappings
MapsToLeavesOnly(value) ==
    /\ value.kind = "dict"
    /\ value.items # <<>>
    /\ \A i \in 1..Len(value.items) : value.items[i][2] = EmptyDict

\* is a list in the order `sorted` gives
IsSorted(list) ==
    \A i \in 1..Len(list) - 1 : ~str_less(list[i + 1], list[i])

\* do the entries of a mapping, at every depth, have a value that is a
\* sorted list, or a mapping that is not one of leaves only
RECURSIVE LeavesCollapsed(_)
LeavesCollapsed(node) ==
    node.kind = "dict" =>
        \A i \in 1..Len(node.items) :
            LET value == node.items[i][2]
            IN  /\ ~MapsToLeavesOnly(value)
                /\ value.kind = "list" => IsSorted(value.items)
                /\ LeavesCollapsed(value)

\* C21: in the tree returned by the header-tree builder, every node, the
\* requested top-level entries included, whose children are all leaves has
\* as its value the sorted list of its children's labels and never a
\* mapping from those labels to empty mappings.
C21_LeavesCollapsed ==
    pc = "treed" => LeavesCollapsed(col_dict)

(***************************************************************************)
(* The parsers on arbitrary texts: SpecParse                               *)
(***************************************************************************)
\* a selection text holds at most MaxParseLines lines
MaxParseLines == 3

\* lines of a row selection: indents of 0, 2, 4 and 8 spaces, a feature
\* repeated with another value, a line without colon and a blank line
ParseRowLines ==
    {text_line(0, s_City, s_HN),
     text_line(0, s_City, s_CG),
     text_line(4, s_City, s_CG),
     text_line(4, s_Dist, s_CG),
     text_line(4, s_Dist, s_HN),
     text_line(2, s_Dist, s_CG),
     text_line(8, s_City, s_HN),
     s_Zone,
     spaces(2)}

\* lines of a column selection: level lines at several indents, a line
\* whose label is no level, a level whose number is no integer, a line
\* without colon and a blank line
ParseColLines ==
    {text_line(0, s_level("1"), s_Inc),
     text_line(4, s_level("1"), s_City),
     text_line(4, s_level("2"), s_Low),
     text_line(0, s_level("2"), s_High),
     text_line(8, s_level("3"), s_X),
     text_line(0, s_Inc, s_Low),
     text_line(0, s_level("x"), s_Inc),
     s_Zone,
     spaces(2)}

RowTexts == {join_lines(l) : l \in LineLists(ParseRowLines, MaxParseLines)}
ColTexts == {join_lines(l) : l \in LineLists(ParseColLines, MaxParseLines)}

InitParse ==
    /\ pc = "selection"
    /\ \/ row_selection \in RowTexts /\ col_selection = <<>>
       \/ row_selection = <<>> /\ col_selection \in ColTexts
    /\ raw_df = Idle
    /\ df = Idle
    /\ feature_rows = <<>>
    /\ feature_cols = <<>>
    /\ row_dict = Idle
    /\ col_dict = Idle
    /\ handed = Idle
    /\ final_df = Idle
    /\ header_matrix = Idle
    /\ flattened_headers = Idle
    /\ acronym_text = Idle
    /\ acronym = Idle
    /\ parsed_row_paths = Idle
    /\ parsed_col_paths = Idle
    /\ selected_columns = Idle

\* parsed_row_paths = parse_row_paths(row_selection)
ParseRows ==
    /\ pc = "selection"
    /\ parsed_row_paths' = parse_row_paths(row_selection)
    /\ pc' = "rows"
    /\ UNCHANGED <<parsed_col_paths, selected_columns, file_vars, query_vars,
                   post_vars, text_vars>>

\* parsed_col_paths = parse_col_paths(col_selection)
ParseCols ==
    /\ pc = "rows"
    /\ parsed_col_paths' = parse_col_paths(col_selection)
    /\ pc' = "parsed"
    /\ UNCHANGED <<parsed_row_paths, selected_columns, file_vars, query_vars,
                   post_vars, text_vars>>

NextParse == ParseRows \/ ParseCols

SpecParse == InitParse /\ [][NextParse]_vars

\* the lines of a text
LinesOf(text) == split(text, "\n")

\* the positions of the lines of a text that hold a colon
ColonLines(text) ==
    {i \in 1..Len(LinesOf(text)) : contains(LinesOf(text)[i], ":")}

\* the n-th smallest position of a set of positions
Nth(positions, n) ==
    CHOOSE i \in positions : Cardinality({k \in positions : k < i}) = n - 1

\* the lines between the n-th position of `starts`, included, and the next
\* position of `starts`, among the lines at `among`
GroupOf(among, starts, n) ==
    {k \in among :
        /\ Nth(starts, n) <= k
        /\ n < Cardinality(starts) => k < Nth(starts, n + 1)}

\* the label and the value of a line "label: value"
LabelOf(line) == strip(split_once(strip(line), ":")[1])
ValueOf(line) == strip(split_once(strip(line), ":")[2])

\* the "label: value" lines of the row selection with fewer than 4 leading
\* spaces
TopLines ==
    {i \in ColonLines(row_selection) :
        leading_spaces(LinesOf(row_selection)[i]) < 4}

\* C22 as stated: parse_row_paths returns one path per indent-0
\* "label: value" line of the input, in input order, and each path contains
\* exactly the feature/value pairs of its indent-0 line and of all
\* deeper-indented lines (4 spaces per level) that follow it before the
\* next indent-0 line.
C22_PathPerTopLine ==
    pc \in {"rows", "parsed"} =>
        /\ Len(parsed_row_paths) = Cardinality(TopLines)
        /\ \A n \in 1..Len(parsed_row_paths) :
               elements(parsed_row_paths[n]) =
                   {<<LabelOf(LinesOf(row_selection)[k]),
                      ValueOf(LinesOf(row_selection)[k])>> :
                        k \in GroupOf(ColonLines(row_selection), TopLines, n)}

\* the lines that start a path: the indent-0 "label: value" lines and the
\* first "label: value" line of the text, whatever its indentation
StartLines ==
    {i \in ColonLines(row_selection) :
        \/ i \in TopLines
        \/ \A k \in ColonLines(row_selection) : i <= k}

\* the last line of a group that carries a label
LastWith(group, label) ==
    CHOOSE k \in group :
        /\ LabelOf(LinesOf(row_selection)[k]) = label
        /\ \A m \in group :
               LabelOf(LinesOf(row_selection)[m]) = label => m <= k

\* C22 (amended): parse_row_paths returns one path per line that starts a
\* path, in input order: the indent-0 "label: value" lines and the first
\* "label: value" line of the text whatever its indentation.  Each path
\* maps every feature named by a line of its group (the starting line and
\* the "label: value" lines after it before the next starting line) to the
\* value of the last line of the group naming that feature, and to nothing
\* else.
C22_PathPerStartLine ==
    pc \in {"rows", "parsed"} =>
        /\ Len(parsed_row_paths) = Cardinality(StartLines)
        /\ \A n \in 1..Len(parsed_row_paths) :
               LET group == GroupOf(ColonLines(row_selection), StartLines, n)
                   path == parsed_row_paths[n]
               IN  /\ {path[i][1] : i \in 1..Len(path)} =
                          {LabelOf(LinesOf(row_selection)[k]) : k \in group}
                   /\ \A i, j \in 1..Len(path) :
                          path[i][1] = path[j][1] => i = j
                   /\ \A i \in 1..Len(path) :
                          path[i][2] =
                              ValueOf(LinesOf(row_selection)[
                                          LastWith(group, path[i][1])])

\* a text whose first line is indented, followed by an indent-0 line and a
\* deeper line that repeats its feature with another value; a line
\* indented by 2 spaces starts a path of its own in another text
C22_Witness ==
    /\ pc = "parsed"
    /\ row_selection = join_lines(<<text_line(4, s_Dist, s_CG),
                                    text_line(0, s_City, s_HN),
                                    text_line(4, s_City, s_CG)>>)
    /\ parsed_row_paths = << << <<s_Dist, s_CG>> >>, << <<s_City, s_CG>> >> >>

\* the level number a label "level_N" names, -1 when it names none
LevelOf(label) ==
    LET suffix == SubSeq(label, Len(s_level_) + 1, Len(label))
    IN  IF startswith(label, s_level_) /\ int_ok(suffix) THEN int(suffix)
        ELSE -1

\* the lines "level_...: value" of the column selection, and those of
\* level 1
LevelLines ==
    {i \in ColonLines(col_selection) :
        startswith(LabelOf(LinesOf(col_selection)[i]), s_level_)}
Level1Lines ==
    {i \in LevelLines : LevelOf(LabelOf(LinesOf(col_selection)[i])) = 1}

\* C23: parse_col_paths returns one path per `level_1:` line of the input,
\* in input order, whatever the indentation of the lines, and each path
\* maps level numbers to values taken from its `level_1` line and from the
\* `level_N` lines that follow it before the next `level_1` line.
C23_PathPerLevel1Line ==
    pc = "parsed" =>
        /\ ~parsed_col_paths.raised
        /\ Len(parsed_col_paths.paths) = Cardinality(Level1Lines)
        /\ \A n \in 1..Len(parsed_col_paths.paths) :
               LET group == GroupOf(LevelLines, Level1Lines, n)
                   path == parsed_col_paths.paths[n]
               IN  /\ {path[i][1] : i \in 1..Len(path)} =
                          {LevelOf(LabelOf(LinesOf(col_selection)[k])) :
                              k \in group}
                   /\ \A i \in 1..Len(path) :
                          \E k \in group :
                              /\ LevelOf(LabelOf(LinesOf(col_selection)[k]))
                                     = path[i][1]
                              /\ ValueOf(LinesOf(col_selection)[k])
                                     = path[i][2]

(***************************************************************************)
(* Spans of the header cells (SpecHeader)                                  *)
(***************************************************************************)
\* the depth and the width of the column axis of the post-processed table
L == axis_nlevels(final_df.df.columns)
n_cols == Len(final_df.df.columns)

\* the label of column position col at level lvl, both counted from 0
label(lvl, col) == final_df.df.columns[col + 1][lvl + 1]

\* are the labels of a column position at all levels deeper than lvl the
\* sentinel
OnlyHeaderBelow(lvl, col) ==
    \A deeper \in (lvl + 1)..(L - 1) : label(deeper, col) = s_Header

\* C24: every cell emitted by build_header_matrix at level l of an L-level
\* header has rowspan L - l if the labels at all levels deeper than l at
\* the cell's position are the sentinel "Header", and rowspan 1 otherwise;
\* a cell at the last level always has rowspan 1.
C24_Rowspan ==
    pc = "posted" =>
        \A cell \in matrix_cells :
            /\ OnlyHeaderBelow(cell.level, cell.position)
                   => cell.rowspan = L - cell.level
            /\ ~OnlyHeaderBelow(cell.level, cell.position)
                   => cell.rowspan = 1
            /\ cell.level = L - 1 => cell.rowspan = 1

\* a 3-level header with a cell spanning three levels, a cell of level 1
\* spanning two, and a cell of level 0 above a real label
C24_Witness ==
    /\ pc = "posted"
    /\ L = 3
    /\ \E cell \in matrix_cells : cell.level = 0 /\ cell.rowspan = 3
    /\ \E cell \in matrix_cells : cell.level = 1 /\ cell.rowspan = 2
    /\ \E cell \in matrix_cells : cell.level = 0 /\ cell.rowspan = 1

\* the columns a cell spans
SpanOf(cell) == cell.position..(cell.position + cell.colspan - 1)

\* do the labels deeper than lvl differ somewhere across the columns
DeeperDiffer(lvl, columns) ==
    \E deeper \in (lvl + 1)..(L - 1) :
        \E c1, c2 \in columns : label(deeper, c1) # label(deeper, c2)

\* is a..b a run of level lvl: consecutive columns carrying the same label,
\* that cannot be extended on either side
IsRun(lvl, a, b) ==
    /\ a < b
    /\ \A c \in a..b : label(lvl, c) = label(lvl, a)
    /\ a > 0 => label(lvl, a - 1) # label(lvl, a)
    /\ b < n_cols - 1 => label(lvl, b + 1) # label(lvl, a)

\* C25: a header cell gets colspan greater than 1 only for a run of
\* consecutive columns carrying the same label at the cell's level and only
\* if either the labels at the deeper levels differ somewhere across the
\* run or all deeper-level labels across the run are the sentinel "Header";
\* when the deeper-level labels are identical and non-sentinel across the
\* run, every column of the run gets its own cell with colspan 1.
C25_Colspan ==
    pc = "posted" =>
        /\ \A cell \in matrix_cells :
               cell.colspan > 1 =>
                   /\ \A c \in SpanOf(cell) :
                          label(cell.level, c) = cell.text
                   /\ \/ DeeperDiffer(cell.level, SpanOf(cell))
                      \/ \A c \in SpanOf(cell) :
                             OnlyHeaderBelow(cell.level, c)
        /\ \A lvl \in 0..(L - 2) : \A a, b \in 0..(n_cols - 1) :
               ( /\ IsRun(lvl, a, b)
                 /\ ~DeeperDiffer(lvl, a..b)
                 /\ ~OnlyHeaderBelow(lvl, a) )
               => \A c \in a..b :
                      \E cell \in matrix_cells :
                          /\ cell.level = lvl
                          /\ cell.position = c
                          /\ cell.colspan = 1

\* C28: header cells nest: in every header matrix built by
\* build_header_matrix, a cell at level l >= 1 with colspan greater than 1
\* covers only columns that carry the same labels at every level shallower
\* than l, so a merged cell never spans columns that belong to two
\* different parent headers.
C28_CellsNest ==
    pc = "posted" =>
        \A cell \in matrix_cells :
            (cell.level >= 1 /\ cell.colspan > 1) =>
                \A c \in SpanOf(cell) :
                    \A shallower \in 0..(cell.level - 1) :
                        label(shallower, c) = label(shallower, cell.position)

\* C29: no label is hidden by a span: for every cell emitted by
\* build_header_matrix and every (level, column) pair the cell covers, the
\* column's label at that level is the cell's text when the level is the
\* cell's own level and is the sentinel "Header" when the level is deeper;
\* equivalently, every non-sentinel label of the column axis is the text
\* of the cell that covers its position.
C29_NoHiddenLabel ==
    pc = "posted" =>
        \A cell \in matrix_cells :
            \A lvl \in 0..(L - 1) : \A col \in 0..(n_cols - 1) :
                covers(cell, lvl, col) =>
                    /\ lvl = cell.level => label(lvl, col) = cell.text
                    /\ lvl > cell.level => label(lvl, col) = s_Header

(***************************************************************************)
(* The sentinel fill (SpecIngest)                                          *)
(***************************************************************************)
\* the table handed to fill_undefined_sequentially and the table it
\* returned, which is the one handed to the forward fill
before_fill == handed.fill
after_fill == handed.ffill

\* did the sentinel fill set the cell of row r under a feature row column
WasFilled(r, name) ==
    /\ isna(key_cell(before_fill, r, name))
    /\ key_cell(after_fill, r, name) = s_Undefined

\* C26: for each pair of consecutive columns (col_A, col_B) of the list,
\* fill_undefined_sequentially sets col_B[i] to the fill value only when
\* all three conditions hold: col_A[i] is not null, col_B[i] is null, and
\* col_B[i+1] (the value of col_B in the next row) is also null.
C26_FillsOnThreeConditions ==
    pc = "ready" =>
        \A i \in 1..(Len(feature_rows) - 1) : \A r \in 1..nrows(before_fill) :
            WasFilled(r, feature_rows[i + 1]) =>
                /\ notna(key_cell(after_fill, r, feature_rows[i]))
                /\ isna(key_cell(before_fill, r, feature_rows[i + 1]))
                /\ r < nrows(before_fill) =>
                       isna(key_cell(before_fill, r + 1, feature_rows[i + 1]))

\* is column position j under one of the Feature Row Columns
IsFeatureRowColumn(j) ==
    \E i \in 1..Len(feature_rows) : j \in columns_of(before_fill, feature_rows[i])

MaxSelColumns == 2
MaxPathLines == 2

\* a label that holds a comma
s_A_B == <<"A", ",", " ", "B">>

\* tables with no rows: a two-level MultiIndex or a flat axis, over the
\* labels "A" and "A, B"
SelTables ==
    {[multi |-> TRUE, columns |-> keys, data |-> <<>>] :
        keys \in UNION {[1..n -> [1..2 -> {s_A, s_A_B}]] :
                           n \in 1..MaxSelColumns}}
    \cup {[multi |-> FALSE, columns |-> keys, data |-> <<>>] :
             keys \in UNION {[1..n -> [1..1 -> {s_A, s_A_B}]] :
                                n \in 1..MaxSelColumns}}

\* the lines of a column selection: levels 0 to 3, values with and without
\* a comma
SelLines ==
    {text_line(0, s_level("1"), s_A),
     text_line(0, s_level("1"), s_A_B),
     text_line(4, s_level("2"), s_A),
     text_line(4, s_level("2"), s_A_B),
     text_line(4, s_level("3"), s_A),
     text_line(0, s_level("0"), s_A)}

SelTexts == {join_lines(l) : l \in LineLists(SelLines, MaxPathLines)}

InitColumns ==
    /\ pc = "paths"
    /\ df \in SelTables
    /\ col_selection \in SelTexts
    /\ row_selection = <<>>
    /\ raw_df = Idle
    /\ feature_rows = <<>>
    /\ feature_cols = <<>>
    /\ row_dict = Idle
    /\ col_dict = Idle
    /\ handed = Idle
    /\ final_df = Idle
    /\ header_matrix = Idle
    /\ flattened_headers = Idle
    /\ acronym_text = Idle
    /\ acronym = Idle
    /\ parsed_row_paths = Idle
    /\ parsed_col_paths = Idle
    /\ selected_columns = Idle

\* col_paths = parse_col_paths(col_selection), then
\* column_tuples = create_column_tuples(df, col_paths)
SelectColumns ==
    /\ pc = "paths"
    /\ ~parse_col_paths(col_selection).raised
    /\ parsed_col_paths' = parse_col_paths(col_selection)
    /\ selected_columns' =
           create_column_tuples(df, parse_col_paths(col_selection).paths)
    /\ pc' = "selected"
    /\ UNCHANGED <<parsed_row_paths, file_vars, query_vars, post_vars,
                   text_vars>>

NextColumns == SelectColumns

SpecColumns == InitColumns /\ [][NextColumns]_vars

\* does the label of column j equal the value of the path at every level
\* of the path that lies within the header depth
FitsWhole(path, j) ==
    \A e \in elements(path) :
        e[1] \in 1..nlevels(df) => df.columns[j][e[1]] = e[2]

LabelAt(j, level) ==
    IF level = 0 THEN df.columns[j][nlevels(df)] ELSE df.columns[j][level]

\* does a path select column j: on a MultiIndex every level of the path not
\* past the header depth carries the path's value; on a flat axis the path
\* has a level 1 whose value is the column's label
SelectsWhole(path, j) ==
    IF df.multi
    THEN \A e \in elements(path) :
             e[1] <= nlevels(df) => LabelAt(j, e[1]) = e[2]
    ELSE \E e \in elements(path) : e[1] = 1 /\ df.columns[j] = <<e[2]>>

====
